---- MODULE Spec2Model ----
(***************************************************************************)
(* nice-lambda: the call pipeline built by buildHandlerFactory, its        *)
(* preprocessors, data handlers and error handlers, and the method router. *)
(*                                                                         *)
(* JavaScript values are tagged records; a JavaScript string is a sequence *)
(* of one-character strings, so that serialising, parsing and decoding are *)
(* computed character by character as the code computes them.              *)
(***************************************************************************)
EXTENDS Integers, Sequences, FiniteSets, TLC

(***************************************************************************)
(* String literals of the source, as character sequences.                  *)
(***************************************************************************)
\* the names of fields
K ==
    [statusCode |->
        <<"s", "t", "a", "t", "u", "s", "C", "o", "d", "e">>,
      body |->
        <<"b", "o", "d", "y">>,
      body64 |->
        <<"b", "o", "d", "y", "6", "4">>,
      headers |->
        <<"h", "e", "a", "d", "e", "r", "s">>,
      message |->
        <<"m", "e", "s", "s", "a", "g", "e">>,
      error |->
        <<"e", "r", "r", "o", "r">>,
      data |->
        <<"d", "a", "t", "a">>,
      warmupOnly |->
        <<"w", "a", "r", "m", "u", "p", "O", "n", "l", "y">>,
      httpMethod |->
        <<"h", "t", "t", "p", "M", "e", "t", "h", "o", "d">>,
      hello |->
        <<"h", "e", "l", "l", "o">>,
      code |->
        <<"c", "o", "d", "e">>,
      event |->
        <<"e", "v", "e", "n", "t">>,
      context |->
        <<"c", "o", "n", "t", "e", "x", "t">>,
      callback |->
        <<"c", "a", "l", "l", "b", "a", "c", "k">>,
      constructor |->
        <<"c", "o", "n", "s", "t", "r", "u", "c", "t", "o", "r">>,
      proto |->
        <<"_", "_", "p", "r", "o", "t", "o", "_", "_">>,
      FunctionName |->
        <<"F", "u", "n", "c", "t", "i", "o", "n", "N", "a", "m", "e">>,
      Payload |->
        <<"P", "a", "y", "l", "o", "a", "d">>,
      InvocationType |->
        <<"I", "n", "v", "o", "c", "a", "t", "i", "o", "n", "T", "y", "p", "e">>,
      StatusCode |->
        <<"S", "t", "a", "t", "u", "s", "C", "o", "d", "e">>,
      FunctionError |->
        <<"F", "u", "n", "c", "t", "i", "o", "n", "E", "r", "r", "o", "r">>,
      errorMessage |->
        <<"e", "r", "r", "o", "r", "M", "e", "s", "s", "a", "g", "e">>,
      errorType |->
        <<"e", "r", "r", "o", "r", "T", "y", "p", "e">>,
      stackTrace |->
        <<"s", "t", "a", "c", "k", "T", "r", "a", "c", "e">> ]

\* the messages of errors
M ==
    [NotAFunction |->
        <<"m", "a", "p", "p", "i", "n", "g", "[", "l", "o", "w", "e", "r", "M", "e", "t", "h", "o", "d", "]", " ", "i", "s", " ", "n", "o", "t", " ", "a", " ", "f", "u", "n", "c", "t", "i", "o", "n">>,
      InvalidBodyJson |->
        <<"I", "n", "v", "a", "l", "i", "d", " ", "b", "o", "d", "y", " ", "J", "S", "O", "N">>,
      NoBody64 |->
        <<"N", "o", " ", "b", "a", "s", "e", "6", "4", "-", "e", "n", "c", "o", "d", "e", "d", " ", "b", "o", "d", "y", " ", "f", "o", "u", "n", "d">>,
      BodyAndBody64 |->
        <<"E", "v", "e", "n", "t", " ", "a", "l", "r", "e", "a", "d", "y", " ", "c", "o", "n", "t", "a", "i", "n", "s", " ", "b", "o", "d", "y", " ", "i", "n", " ", "a", "d", "d", "i", "t", "i", "o", "n", " ", "t", "o", " ", "b", "o", "d", "y", "6", "4">>,
      DecodeFailed |->
        <<"F", "a", "i", "l", "e", "d", " ", "t", "o", " ", "d", "e", "c", "o", "d", "e", " ", "b", "a", "s", "e", "6", "4", "-", "e", "n", "c", "o", "d", "e", "d", " ", "b", "o", "d", "y">>,
      FormParseFailed |->
        <<"F", "a", "i", "l", "e", "d", " ", "t", "o", " ", "p", "a", "r", "s", "e", " ", "f", "o", "r", "m", "-", "u", "r", "l", "-", "e", "n", "c", "o", "d", "e", "d", " ", "b", "o", "d", "y">>,
      InvalidStatusCode |->
        <<"D", "a", "t", "a", " ", "h", "a", "n", "d", "l", "e", "r", " ", "r", "e", "t", "u", "r", "n", "e", "d", " ", "i", "n", "v", "a", "l", "i", "d", " ", "s", "t", "a", "t", "u", "s", " ", "c", "o", "d", "e">>,
      Unexpected |->
        <<"U", "n", "e", "x", "p", "e", "c", "t", "e", "d", " ", "i", "n", "t", "e", "r", "n", "a", "l", " ", "s", "e", "r", "v", "e", "r", " ", "e", "r", "r", "o", "r">>,
      NoHttpMethod |->
        <<"R", "e", "q", "u", "e", "s", "t", " ", "e", "v", "e", "n", "t", " ", "d", "i", "d", " ", "n", "o", "t", " ", "c", "o", "n", "t", "a", "i", "n", " ", "h", "t", "t", "p", "M", "e", "t", "h", "o", "d">>,
      UnsupportedPrefix |->
        <<"T", "h", "i", "s", " ", "r", "e", "s", "o", "u", "r", "c", "e", " ", "d", "o", "e", "s", " ", "n", "o", "t", " ", "s", "u", "p", "p", "o", "r", "t", " ", "t", "h", "e", " ", "'">>,
      UnsupportedSuffix |->
        <<"'", " ", "m", "e", "t", "h", "o", "d">>,
      InternalServerError |->
        <<"I", "n", "t", "e", "r", "n", "a", "l", " ", "S", "e", "r", "v", "e", "r", " ", "E", "r", "r", "o", "r">>,
      InternalOccurred |->
        <<"A", "n", " ", "i", "n", "t", "e", "r", "n", "a", "l", " ", "s", "e", "r", "v", "e", "r", " ", "e", "r", "r", "o", "r", " ", "o", "c", "c", "u", "r", "r", "e", "d">>,
      BadRequest |->
        <<"B", "a", "d", " ", "R", "e", "q", "u", "e", "s", "t">>,
      RequestResponse |->
        <<"R", "e", "q", "u", "e", "s", "t", "R", "e", "s", "p", "o", "n", "s", "e">>,
      Event |->
        <<"E", "v", "e", "n", "t">>,
      Unhandled |->
        <<"U", "n", "h", "a", "n", "d", "l", "e", "d">>,
      Handled |->
        <<"H", "a", "n", "d", "l", "e", "d">>,
      FailedToInvoke |->
        <<"F", "a", "i", "l", "e", "d", " ", "t", "o", " ", "i", "n", "v", "o", "k", "e", " ", "L", "a", "m", "b", "d", "a", " ", "f", "u", "n", "c", "t", "i", "o", "n", " ">>,
      FailedToParsePayload |->
        <<"F", "a", "i", "l", "e", "d", " ", "t", "o", " ", "p", "a", "r", "s", "e", " ", "L", "a", "m", "b", "d", "a", " ", "r", "e", "s", "p", "o", "n", "s", "e", " ", "p", "a", "y", "l", "o", "a", "d", " ", "'">>,
      UnrecognizedPrefix |->
        <<"U", "n", "r", "e", "c", "o", "g", "n", "i", "z", "e", "d", " ", "L", "a", "m", "b", "d", "a", " ", "r", "e", "s", "p", "o", "n", "s", "e", " ", "F", "u", "n", "c", "t", "i", "o", "n", "E", "r", "r", "o", "r", " ", "v", "a", "l", "u", "e", " ", "'">>,
      SyntaxError |->
        <<"U", "n", "e", "x", "p", "e", "c", "t", "e", "d", " ", "t", "o", "k", "e", "n", " ", "i", "n", " ", "J", "S", "O", "N">>,
      TypeError |->
        <<"C", "a", "n", "n", "o", "t", " ", "r", "e", "a", "d", " ", "p", "r", "o", "p", "e", "r", "t", "y", " ", "'", "e", "r", "r", "o", "r", "M", "e", "s", "s", "a", "g", "e", "'", " ", "o", "f", " ", "n", "u", "l", "l">> ]

(***************************************************************************)
(* JavaScript values.                                                      *)
(***************************************************************************)
Undefined == [t |-> "undefined"]
Null == [t |-> "null"]
Bool(b) == [t |-> "boolean", b |-> b]
Str(s) == [t |-> "string", s |-> s]
\* a number: an integer n, n + 1/2 (kind "frac") or NaN
Num(n) == [t |-> "number", kind |-> "int", n |-> n]
Frac(n) == [t |-> "number", kind |-> "frac", n |-> n]
NaN == [t |-> "number", kind |-> "nan", n |-> 0]
Arr(a) == [t |-> "array", a |-> a]
\* a plain object: its own enumerable properties in insertion order
Obj(e) == [t |-> "object", e |-> e]
Prop(k, v) == [k |-> k, v |-> v]
\* a function value
Function == [t |-> "function"]
\* new Error(message): not a plain object, message is not enumerable
Err(message) == [t |-> "error", isBoom |-> FALSE, message |-> message]

Has(o, key) == o.t = "object" /\ \E i \in 1..Len(o.e) : o.e[i].k = key

Get(o, key) ==
    IF o.t = "object" /\ Has(o, key)
    THEN o.e[CHOOSE i \in 1..Len(o.e) : o.e[i].k = key].v
    ELSE IF o.t = "error" /\ key = K.message THEN o.message
    ELSE Undefined

\* { ...o, key: v }
Spread(o, key, v) ==
    IF Has(o, key)
    THEN Obj([i \in 1..Len(o.e) |-> IF o.e[i].k = key THEN Prop(key, v) ELSE o.e[i]])
    ELSE Obj(Append(o.e, Prop(key, v)))

Truthy(v) ==
    CASE v.t = "undefined" -> FALSE
      [] v.t = "null" -> FALSE
      [] v.t = "boolean" -> v.b
      [] v.t = "number" -> v.kind = "frac" \/ (v.kind = "int" /\ v.n # 0)
      [] v.t = "string" -> Len(v.s) > 0
      [] OTHER -> TRUE

\* a || b
OrElse(a, b) == IF Truthy(a) THEN a ELSE b

(***************************************************************************)
(* lodash                                                                  *)
(***************************************************************************)
isPlainObject(v) == v.t = "object"
isNumber(v) == v.t = "number"
has(v, key) == Has(v, key)
get(v, key, default) == IF Get(v, key) = Undefined THEN default ELSE Get(v, key)

UpperCase == <<"A","B","C","D","E","F","G","H","I","J","K","L","M","N","O","P","Q","R","S","T","U","V","W","X","Y","Z">>
LowerCase == <<"a","b","c","d","e","f","g","h","i","j","k","l","m","n","o","p","q","r","s","t","u","v","w","x","y","z">>
toLowerChar(c) ==
    IF \E i \in 1..Len(UpperCase) : UpperCase[i] = c
    THEN LowerCase[CHOOSE i \in 1..Len(UpperCase) : UpperCase[i] = c]
    ELSE c
toLower(s) == [i \in 1..Len(s) |-> toLowerChar(s[i])]

(***************************************************************************)
(* JSON.stringify                                                          *)
(***************************************************************************)
Digit == <<"0","1","2","3","4","5","6","7","8","9">>
RECURSIVE Digits(_)
Digits(n) == IF n < 10 THEN <<Digit[n + 1]>> ELSE Digits(n \div 10) \o <<Digit[(n % 10) + 1]>>
NumberToString(v) ==
    CASE v.kind = "nan" -> <<"N","a","N">>
      [] v.kind = "int" -> IF v.n < 0 THEN <<"-">> \o Digits(-v.n) ELSE Digits(v.n)
      [] v.kind = "frac" -> (IF v.n < 0 THEN <<"-">> \o Digits(-v.n) ELSE Digits(v.n)) \o <<".","5">>

RECURSIVE Quote(_)
Quote(s) ==
    IF s = <<>> THEN <<>>
    ELSE IF Len(s) = 1
    THEN (IF Head(s) = "\"" \/ Head(s) = "\\" THEN <<"\\", Head(s)>> ELSE <<Head(s)>>)
    ELSE Quote(SubSeq(s, 1, Len(s) \div 2)) \o Quote(SubSeq(s, (Len(s) \div 2) + 1, Len(s)))
QuoteString(s) == <<"\"">> \o Quote(s) \o <<"\"">>

RECURSIVE Join(_, _)
Join(parts, sep) ==
    IF Len(parts) = 0 THEN <<>>
    ELSE IF Len(parts) = 1 THEN parts[1]
    ELSE parts[1] \o sep \o Join(Tail(parts), sep)

\* the text JSON.stringify returns, or Undefined where it returns no string
RECURSIVE SerializeJSON(_)
SerializeJSON(v) ==
    CASE v.t = "undefined" -> Undefined
      [] v.t = "function" -> Undefined
      [] v.t = "null" -> Str(<<"n","u","l","l">>)
      [] v.t = "boolean" -> Str(IF v.b THEN <<"t","r","u","e">> ELSE <<"f","a","l","s","e">>)
      [] v.t = "number" -> Str(IF v.kind = "nan" THEN <<"n","u","l","l">> ELSE NumberToString(v))
      [] v.t = "string" -> Str(QuoteString(v.s))
      [] v.t = "array" ->
           Str(<<"[">> \o Join([i \in 1..Len(v.a) |->
                                   IF SerializeJSON(v.a[i]) = Undefined
                                   THEN <<"n","u","l","l">>
                                   ELSE SerializeJSON(v.a[i]).s], <<",">>) \o <<"]">>)
      [] v.t = "object" ->
           LET kept == SelectSeq(v.e, LAMBDA p : SerializeJSON(p.v) # Undefined)
           IN Str(<<"{">> \o Join([i \in 1..Len(kept) |->
                                     QuoteString(kept[i].k) \o <<":">> \o SerializeJSON(kept[i].v).s],
                                  <<",">>) \o <<"}">>)
      [] v.t = "error" -> Str(<<"{","}">>)
JSONstringify(v) == SerializeJSON(v)

\* the text JSON.stringify(v, null, 2) returns for a value nested depth deep
Spaces(n) == [k \in 1..n |-> " "]
RECURSIVE SerializeIndented(_, _)
SerializeIndented(v, depth) ==
    CASE v.t = "array" /\ Len(v.a) > 0 ->
           Str(<<"[", "\n">>
               \o Join([i \in 1..Len(v.a) |->
                           Spaces(2 * (depth + 1))
                           \o (IF SerializeIndented(v.a[i], depth + 1) = Undefined
                               THEN <<"n","u","l","l">>
                               ELSE SerializeIndented(v.a[i], depth + 1).s)], <<",", "\n">>)
               \o <<"\n">> \o Spaces(2 * depth) \o <<"]">>)
      [] v.t = "object" /\ \E i \in 1..Len(v.e) : SerializeJSON(v.e[i].v) # Undefined ->
           LET kept == SelectSeq(v.e, LAMBDA p : SerializeJSON(p.v) # Undefined)
           IN Str(<<"{", "\n">>
                  \o Join([i \in 1..Len(kept) |->
                              Spaces(2 * (depth + 1)) \o QuoteString(kept[i].k) \o <<":", " ">>
                              \o SerializeIndented(kept[i].v, depth + 1).s], <<",", "\n">>)
                  \o <<"\n">> \o Spaces(2 * depth) \o <<"}">>)
      [] OTHER -> SerializeJSON(v)


(***************************************************************************)
(* JSON.parse: null, true, false, integers and halves, strings with the    *)
(* escapes \" \\ \/, arrays and objects, blanks between tokens.  The       *)
(* result is [ok |-> TRUE, v |-> value], or [ok |-> FALSE] for the         *)
(* SyntaxError JSON.parse throws.                                          *)
(***************************************************************************)
ParseFail == [ok |-> FALSE]
IsDigit(c) == \E d \in 1..10 : Digit[d] = c
DigitValue(c) == (CHOOSE d \in 1..10 : Digit[d] = c) - 1

RECURSIVE SkipBlanks(_, _)
SkipBlanks(s, i) == IF i <= Len(s) /\ s[i] \in {" ", "\n", "\t", "\r"} THEN SkipBlanks(s, i + 1) ELSE i

Matches(s, i, lit) ==
    /\ i + Len(lit) - 1 <= Len(s)
    /\ \A j \in 1..Len(lit) : s[i + j - 1] = lit[j]

\* the number of backslashes in a row that end just before position p of the text that
\* starts at i
RunBefore(s, i, p) ==
    LET others == {q \in i..(p - 1) : s[q] # "\\"}
    IN IF others = {} THEN p - i ELSE p - 1 - (CHOOSE q \in others : \A r \in others : r <= q)

\* position p is the second character of an escape
IsEscaped(s, i, p) == RunBefore(s, i, p) % 2 = 1

RECURSIVE Unescape(_, _, _, _)
Unescape(s, i, lo, hi) ==
    IF lo > hi THEN <<>>
    ELSE IF lo = hi THEN (IF s[lo] = "\\" /\ ~IsEscaped(s, i, lo) THEN <<>> ELSE <<s[lo]>>)
    ELSE LET mid == (lo + hi) \div 2
         IN Unescape(s, i, lo, mid) \o Unescape(s, i, mid + 1, hi)

ScanString(s, i, acc) ==
    LET closers == {p \in i..Len(s) : s[p] = "\"" /\ ~IsEscaped(s, i, p)}
    IN IF closers = {} THEN ParseFail
       ELSE LET end == CHOOSE p \in closers : \A q \in closers : p <= q
            IN IF \E p \in i..(end - 1) : IsEscaped(s, i, p) /\ s[p] \notin {"\"", "\\", "/"}
               THEN ParseFail
               ELSE [ok |-> TRUE, v |-> Str(acc \o Unescape(s, i, i, end - 1)), i |-> end + 1]

RECURSIVE ScanDigits(_, _, _)
ScanDigits(s, i, n) ==
    IF i <= Len(s) /\ IsDigit(s[i])
    THEN ScanDigits(s, i + 1, 10 * n + DigitValue(s[i]))
    ELSE [n |-> n, i |-> i]

ScanNumber(s, i) ==
    LET neg == i <= Len(s) /\ s[i] = "-"
        j == IF neg THEN i + 1 ELSE i
    IN IF ~(j <= Len(s) /\ IsDigit(s[j])) THEN ParseFail
       ELSE LET d == IF s[j] = "0" THEN [n |-> 0, i |-> j + 1] ELSE ScanDigits(s, j, 0)
                n == IF neg THEN -d.n ELSE d.n
            IN IF d.i <= Len(s) /\ s[d.i] = "."
               THEN IF d.i + 1 <= Len(s) /\ s[d.i + 1] = "5"
                       /\ ~(d.i + 2 <= Len(s) /\ IsDigit(s[d.i + 2]))
                    THEN [ok |-> TRUE, v |-> Frac(n), i |-> d.i + 2]
                    ELSE ParseFail
               ELSE [ok |-> TRUE, v |-> Num(n), i |-> d.i]

RECURSIVE ParseValue(_, _)
RECURSIVE ParseElements(_, _, _)
RECURSIVE ParseMembers(_, _, _)

ParseValue(s, i0) ==
    LET i == SkipBlanks(s, i0)
    IN IF i > Len(s) THEN ParseFail
       ELSE IF Matches(s, i, <<"n","u","l","l">>) THEN [ok |-> TRUE, v |-> Null, i |-> i + 4]
       ELSE IF Matches(s, i, <<"t","r","u","e">>) THEN [ok |-> TRUE, v |-> Bool(TRUE), i |-> i + 4]
       ELSE IF Matches(s, i, <<"f","a","l","s","e">>) THEN [ok |-> TRUE, v |-> Bool(FALSE), i |-> i + 5]
       ELSE IF s[i] = "\"" THEN ScanString(s, i + 1, <<>>)
       ELSE IF s[i] = "[" THEN
              LET j == SkipBlanks(s, i + 1)
              IN IF j <= Len(s) /\ s[j] = "]" THEN [ok |-> TRUE, v |-> Arr(<<>>), i |-> j + 1]
                 ELSE ParseElements(s, j, <<>>)
       ELSE IF s[i] = "{" THEN
              LET j == SkipBlanks(s, i + 1)
              IN IF j <= Len(s) /\ s[j] = "}" THEN [ok |-> TRUE, v |-> Obj(<<>>), i |-> j + 1]
                 ELSE ParseMembers(s, j, Obj(<<>>))
       ELSE ScanNumber(s, i)

ParseElements(s, i, acc) ==
    LET r == ParseValue(s, i)
    IN IF ~r.ok THEN ParseFail
       ELSE LET j == SkipBlanks(s, r.i)
            IN IF j > Len(s) THEN ParseFail
               ELSE IF s[j] = "]" THEN [ok |-> TRUE, v |-> Arr(Append(acc, r.v)), i |-> j + 1]
               ELSE IF s[j] = "," THEN ParseElements(s, j + 1, Append(acc, r.v))
               ELSE ParseFail

ParseMembers(s, i0, acc) ==
    LET i == SkipBlanks(s, i0)
    IN IF ~(i <= Len(s) /\ s[i] = "\"") THEN ParseFail
       ELSE LET k == ScanString(s, i + 1, <<>>)
            IN IF ~k.ok THEN ParseFail
               ELSE LET c == SkipBlanks(s, k.i)
                    IN IF ~(c <= Len(s) /\ s[c] = ":") THEN ParseFail
                       ELSE LET r == ParseValue(s, c + 1)
                            IN IF ~r.ok THEN ParseFail
                               ELSE LET j == SkipBlanks(s, r.i)
                                        o == Spread(acc, k.v.s, r.v)
                                    IN IF j > Len(s) THEN ParseFail
                                       ELSE IF s[j] = "}" THEN [ok |-> TRUE, v |-> o, i |-> j + 1]
                                       ELSE IF s[j] = "," THEN ParseMembers(s, j + 1, o)
                                       ELSE ParseFail

\* String(v), the text JSON.parse reads when its argument is not a string
ToString_(v) ==
    CASE v.t = "string" -> v.s
      [] v.t = "number" -> NumberToString(v)
      [] v.t = "boolean" -> IF v.b THEN <<"t","r","u","e">> ELSE <<"f","a","l","s","e">>
      [] v.t = "null" -> <<"n","u","l","l">>
      [] v.t = "undefined" -> <<"u","n","d","e","f","i","n","e","d">>
      [] v.t = "array" -> <<"[","a","r","r","a","y","]">>
      [] OTHER -> <<"[","o","b","j","e","c","t"," ","O","b","j","e","c","t","]">>

JSONparse(v) ==
    LET s == ToString_(v)
        r == ParseValue(s, 1)
    IN IF v.t = "array" THEN ParseFail
       ELSE IF r.ok /\ SkipBlanks(s, r.i) > Len(s) THEN [ok |-> TRUE, v |-> r.v] ELSE ParseFail

(***************************************************************************)
(* Buffer.from(text, 'base64').toString() and decodeURIComponent, on ASCII *)
(***************************************************************************)
Base64Alphabet ==
    <<"A","B","C","D","E","F","G","H","I","J","K","L","M","N","O","P","Q","R","S","T","U","V","W","X","Y","Z",
      "a","b","c","d","e","f","g","h","i","j","k","l","m","n","o","p","q","r","s","t","u","v","w","x","y","z",
      "0","1","2","3","4","5","6","7","8","9","+","/">>
\* the characters of codes 32..126 (the grave accent, which a TLA+ string cannot hold, as a token)
Printable ==
    <<" ","!","\"","#","$","%","&","'","(",")","*","+",",","-",".","/",
      "0","1","2","3","4","5","6","7","8","9",":",";","<","=",">","?","@",
      "A","B","C","D","E","F","G","H","I","J","K","L","M","N","O","P","Q","R","S","T","U","V","W","X","Y","Z",
      "[","\\","]","^","_","U+96",
      "a","b","c","d","e","f","g","h","i","j","k","l","m","n","o","p","q","r","s","t","u","v","w","x","y","z",
      "{","|","}","~">>
\* the character of a code point: itself when printable ASCII, else a token naming it
CharOf(code) ==
    IF code >= 32 /\ code <= 126 THEN Printable[code - 31] ELSE "U+" \o ToString(code)
ReplacementChar == "U+65533"

IsBase64Char(c) == \E i \in 1..64 : Base64Alphabet[i] = c
Base64Value(c) == (CHOOSE i \in 1..64 : Base64Alphabet[i] = c) - 1

\* the sextets of the text up to its padding, characters outside the alphabet skipped
RECURSIVE Sextets(_)
Sextets(s) ==
    IF s = <<>> \/ Head(s) = "=" THEN <<>>
    ELSE IF IsBase64Char(Head(s)) THEN <<Base64Value(Head(s))>> \o Sextets(Tail(s))
    ELSE Sextets(Tail(s))

RECURSIVE Base64Bytes(_)
Base64Bytes(q) ==
    IF Len(q) < 2 THEN <<>>
    ELSE IF Len(q) = 2 THEN <<q[1] * 4 + q[2] \div 16>>
    ELSE IF Len(q) = 3 THEN <<q[1] * 4 + q[2] \div 16, (q[2] % 16) * 16 + q[3] \div 4>>
    ELSE <<q[1] * 4 + q[2] \div 16, (q[2] % 16) * 16 + q[3] \div 4, (q[3] % 4) * 64 + q[4]>>
         \o Base64Bytes(SubSeq(q, 5, Len(q)))

\* bytes to text: ASCII bytes as themselves, any other byte as U+FFFD
BytesToString(b) == [i \in 1..Len(b) |-> IF b[i] < 128 THEN CharOf(b[i]) ELSE ReplacementChar]

\* Buffer.from(v, 'base64').toString(): a TypeError unless v is a string
BufferFromBase64(v) ==
    IF v.t = "string"
    THEN [ok |-> TRUE, v |-> Str(BytesToString(Base64Bytes(Sextets(v.s))))]
    ELSE [ok |-> FALSE]

HexDigits == <<"0","1","2","3","4","5","6","7","8","9","a","b","c","d","e","f">>
IsHex(c) == \E i \in 1..16 : HexDigits[i] = toLowerChar(c)
HexValue(c) == (CHOOSE i \in 1..16 : HexDigits[i] = toLowerChar(c)) - 1
IsEscape(s, i) == i + 2 <= Len(s) /\ s[i] = "%" /\ IsHex(s[i + 1]) /\ IsHex(s[i + 2])
EscapeByte(s, i) == 16 * HexValue(s[i + 1]) + HexValue(s[i + 2])
\* the number of continuation bytes a UTF-8 lead byte announces, -1 for no lead byte
Continuations(b) ==
    IF b < 128 THEN 0
    ELSE IF b >= 194 /\ b <= 223 THEN 1
    ELSE IF b >= 224 /\ b <= 239 THEN 2
    ELSE IF b >= 240 /\ b <= 244 THEN 3
    ELSE -1
LeadBits(b) == IF b < 128 THEN b ELSE IF b <= 223 THEN b - 192 ELSE IF b <= 239 THEN b - 224 ELSE b - 240

\* the code point after n more continuation escapes at i, or -1
RECURSIVE Continue(_, _, _, _)
Continue(s, i, n, cp) ==
    IF n = 0 THEN cp
    ELSE IF IsEscape(s, i) /\ EscapeByte(s, i) >= 128 /\ EscapeByte(s, i) <= 191
         THEN Continue(s, i + 3, n - 1, cp * 64 + (EscapeByte(s, i) - 128))
    ELSE -1

\* [ok |-> TRUE, v |-> text], or [ok |-> FALSE] for the URIError
RECURSIVE DecodeFrom(_, _, _)
DecodeFrom(s, i, acc) ==
    IF i > Len(s) THEN [ok |-> TRUE, v |-> acc]
    ELSE IF s[i] # "%" THEN DecodeFrom(s, i + 1, Append(acc, s[i]))
    ELSE IF ~IsEscape(s, i) THEN [ok |-> FALSE]
    ELSE LET b == EscapeByte(s, i)
             n == Continuations(b)
         IN IF n < 0 \/ Continue(s, i + 3, n, LeadBits(b)) < 0 THEN [ok |-> FALSE]
            ELSE DecodeFrom(s, i + 3 + 3 * n, Append(acc, CharOf(Continue(s, i + 3, n, LeadBits(b)))))
decodeURIComponent(s) == DecodeFrom(s, 1, <<>>)

\* text.split(sep), sep one character
RECURSIVE SplitFrom(_, _, _, _)
SplitFrom(s, sep, i, cur) ==
    IF i > Len(s) THEN <<cur>>
    ELSE IF s[i] = sep THEN <<cur>> \o SplitFrom(s, sep, i + 1, <<>>)
    ELSE SplitFrom(s, sep, i + 1, Append(cur, s[i]))
split(s, sep) == SplitFrom(s, sep, 1, <<>>)

\* text.replace(/\+/g, ' ')
replacePlus(s) == [i \in 1..Len(s) |-> IF s[i] = "+" THEN " " ELSE s[i]]


(***************************************************************************)
(* boom: the structured HTTP errors the handlers raise and recognise.      *)
(***************************************************************************)
\* the message boom gives the error: the one passed, as text, or the status name
BoomMessage(message, name) == IF Truthy(message) THEN Str(ToString_(message)) ELSE Str(name)

\* a 500: boom hides the message of a server error from the payload
badImplementation(message) ==
    [t |-> "error", isBoom |-> TRUE, message |-> BoomMessage(message, M.InternalServerError),
     output |-> [statusCode |-> Num(500),
                 payload |-> Obj(<<Prop(K.statusCode, Num(500)),
                                   Prop(K.error, Str(M.InternalServerError)),
                                   Prop(K.message, Str(M.InternalOccurred))>>)]]

\* a 400: the payload carries the message
badRequest(message) ==
    [t |-> "error", isBoom |-> TRUE, message |-> BoomMessage(message, M.BadRequest),
     output |-> [statusCode |-> Num(400),
                 payload |-> Obj(<<Prop(K.statusCode, Num(400)),
                                   Prop(K.error, Str(M.BadRequest)),
                                   Prop(K.message, BoomMessage(message, M.BadRequest))>>)]]

isBoom(e) == e.t = "error" /\ e.isBoom

(***************************************************************************)
(* What a stage does: it returns a value or throws one; a handler invokes  *)
(* the completion callback or throws before reaching it.                   *)
(***************************************************************************)
Return(v) == [ok |-> TRUE, v |-> v]
Throw(e) == [ok |-> FALSE, error |-> e]
Callback(err, data) == [ok |-> TRUE, err |-> err, data |-> data]

(***************************************************************************)
(* Preprocessors: from the event of the call to the event of the new call. *)
(***************************************************************************)
preprocessorPassthrough(event) == Return(event)

\* a faulty variant: the body left as the text it came as
preprocessorBodyJson_Unparsed(event) == Return(event)

preprocessorBodyJson(event) ==
    IF Truthy(Get(event, K.body))
    THEN IF JSONparse(Get(event, K.body)).ok
         THEN Return(Spread(event, K.body, JSONparse(Get(event, K.body)).v))
         ELSE Throw(badImplementation(Str(M.InvalidBodyJson)))
    ELSE Return(event)

decodeEventBody64(event) ==
    IF ~Truthy(Get(event, K.body64)) THEN Throw(badImplementation(Str(M.NoBody64)))
    ELSE IF Truthy(Get(event, K.body)) THEN Throw(badImplementation(Str(M.BodyAndBody64)))
    ELSE IF BufferFromBase64(Get(event, K.body64)).ok
         THEN Return(BufferFromBase64(Get(event, K.body64)).v)
         ELSE Throw(badImplementation(Str(M.DecodeFailed)))

preprocessorBody64(event) ==
    IF decodeEventBody64(event).ok
    THEN Return(Spread(event, K.body, decodeEventBody64(event).v))
    ELSE decodeEventBody64(event)

\* one pair of the form body: [ok |-> TRUE, k, v] or [ok |-> FALSE]
DecodePair(pair) ==
    LET splitPair == split(pair, "=")
    IN IF Len(splitPair) # 2 THEN [ok |-> FALSE]
       ELSE LET key == decodeURIComponent(replacePlus(splitPair[1]))
                value == decodeURIComponent(replacePlus(splitPair[2]))
            IN IF key.ok /\ value.ok THEN [ok |-> TRUE, k |-> key.v, v |-> Str(value.v)]
               ELSE [ok |-> FALSE]

\* body[key] = value, on a body written as an object literal: assigning a text to
\* __proto__ is the inherited setter, which ignores what is not an object
Assign(body, key, value) == IF key = K.proto THEN body ELSE Spread(body, key, value)

\* a faulty variant: a pair that cannot be decoded is left out
DecodePairs_SkipBad(pairs, body) ==
    LET good == SelectSeq(pairs, LAMBDA p : DecodePair(p).ok)
        F[n \in 0..Len(good)] ==
            IF n = 0 THEN body ELSE Assign(F[n - 1], DecodePair(good[n]).k, DecodePair(good[n]).v)
    IN Return(F[Len(good)])

\* pairs.forEach: body[key] = value for each pair in turn, the first bad pair throws
RECURSIVE DecodePairs(_, _)
DecodePairs(pairs, body) ==
    IF pairs = <<>> THEN Return(body)
    ELSE IF DecodePair(Head(pairs)).ok
         THEN DecodePairs(Tail(pairs), Assign(body, DecodePair(Head(pairs)).k, DecodePair(Head(pairs)).v))
         ELSE Throw(badRequest(Str(M.FormParseFailed)))

preprocessorBody64FormUrlEncoded(event) ==
    IF ~decodeEventBody64(event).ok THEN decodeEventBody64(event)
    ELSE LET decodedBody == decodeEventBody64(event).v
             body == DecodePairs(split(decodedBody.s, "&"), Obj(<<>>))
         IN IF body.ok THEN Return(Spread(event, K.body, body.v)) ELSE body

(***************************************************************************)
(* Data handlers and error handlers.                                       *)
(***************************************************************************)
dataHandlerPassthrough(data) == Callback(Null, data)

\* a faulty variant: the error passed as the result
errorHandlerPassthrough_AsData(error) == Callback(Null, error)
\* callback(call.error): no second argument
errorHandlerPassthrough(error) == Callback(error, Undefined)

\* a faulty variant: the headers of the success responses taken from options.headers alone
dataHeaders_Shared(options) == OrElse(options.headers, Obj(<<>>))
dataHeaders(options) == OrElse(OrElse(options.dataHeaders, options.headers), Obj(<<>>))
errorHeaders(options) == OrElse(OrElse(options.errorHeaders, options.headers), Obj(<<>>))

Response(statusCode, body, headers) ==
    Obj(<<Prop(K.statusCode, statusCode), Prop(K.body, body), Prop(K.headers, headers)>>)

\* if (typeof response.body !== 'string') response.body = JSON.stringify(response.body)
StringBody(body) == IF body.t # "string" THEN JSONstringify(body) ELSE body

\* a faulty variant: the status code of the data ignored
dataHandlerApiWithOptions_Always200(options, data) ==
    Callback(Null, Response(Num(200), StringBody(data), dataHeaders(options)))

dataHandlerApiWithOptions(options, data) ==
    IF isPlainObject(data) /\ has(data, K.statusCode)
    THEN IF ~isNumber(Get(data, K.statusCode))
         THEN Throw(badImplementation(Str(M.InvalidStatusCode)))
         ELSE Callback(Null, Response(Get(data, K.statusCode),
                                      StringBody(get(data, K.body, Str(<<>>))),
                                      get(data, K.headers, dataHeaders(options))))
    ELSE Callback(Null, Response(Num(200), StringBody(data), dataHeaders(options)))

\* a faulty variant: every error replaced by a generic one, structured or not
Boomify_AlwaysGeneric(error) == badImplementation(get(error, K.message, Str(M.Unexpected)))
\* the error the response is made from
Boomify(error) ==
    IF isBoom(error) THEN error ELSE badImplementation(get(error, K.message, Str(M.Unexpected)))

\* the part of the error handler after the hook
errorHandlerApiResponse(options, error) ==
    Callback(Null, Response(Boomify(error).output.statusCode,
                            JSONstringify(Boomify(error).output.payload),
                            errorHeaders(options)))

(***************************************************************************)
(* The invocation client: invokeRequestResponse, from the response of      *)
(* lambdaService.invoke to what the call returns or throws.                *)
(***************************************************************************)
\* the parameters given to lambdaService.invoke
InvokeParams(lambdaFunction, lambdaEvent, invocationType) ==
    Obj(<<Prop(K.FunctionName, Str(lambdaFunction)),
          Prop(K.Payload, JSONstringify(lambdaEvent)),
          Prop(K.InvocationType, Str(invocationType))>>)

\* a faulty variant: the status compared loosely, and the acceptance status taken too
IsSuccessStatus_Loose(statusCode) ==
    statusCode \in {Num(200), Num(202), Str(<<"2", "0", "0">>)}
\* response.StatusCode !== 200, negated
IsSuccessStatus(statusCode) == statusCode = Num(200)

\* new Error(`Failed to invoke Lambda function ${lambdaFunction}:\n${JSON.stringify(response, null, 2)}`)
ServiceFailure(lambdaFunction, response) ==
    Err(Str(M.FailedToInvoke \o lambdaFunction \o <<":", "\n">> \o SerializeIndented(response, 0).s))

\* the SyntaxError of JSON.parse, its message the engine's
SyntaxError == Err(Str(M.SyntaxError))
\* the TypeError of reading a property of null
TypeError == Err(Str(M.TypeError))

\* a faulty variant: a payload that is not JSON taken as the text it is
ParsePayload_Lenient(response) ==
    IF JSONparse(Get(response, K.Payload)).ok
    THEN Return(JSONparse(Get(response, K.Payload)).v)
    ELSE Return(Get(response, K.Payload))

\* payload = JSON.parse(response.Payload), a failure rethrown as an Error of the client
ParsePayload(response) ==
    IF JSONparse(Get(response, K.Payload)).ok
    THEN Return(JSONparse(Get(response, K.Payload)).v)
    ELSE Throw(Err(Str(M.FailedToParsePayload \o ToString_(Get(response, K.Payload))
                       \o <<"'", ":", "\n">> \o SyntaxError.message.s)))

\* a faulty variant: the payload wrapped in an Error
UnhandledError_Wrapped(payload) == Throw(Err(Get(payload, K.errorMessage)))
\* throw payload
UnhandledError(payload) == Throw(payload)

\* a faulty variant: the error message never parsed
HandledError_Raw(payload) ==
    IF payload = Null THEN Throw(TypeError) ELSE Throw(Get(payload, K.errorMessage))

\* error = JSON.parse(payload.errorMessage), or payload.errorMessage if that throws;
\* with a null payload the read in the catch block throws again
HandledError(payload) ==
    IF payload = Null THEN Throw(TypeError)
    ELSE IF JSONparse(Get(payload, K.errorMessage)).ok
    THEN Throw(JSONparse(Get(payload, K.errorMessage)).v)
    ELSE Throw(Get(payload, K.errorMessage))

\* a faulty variant: every discriminator other than Unhandled taken as Handled
invokeRequestResponse_TwoWay(lambdaFunction, response) ==
    IF ~IsSuccessStatus(Get(response, K.StatusCode))
    THEN Throw(ServiceFailure(lambdaFunction, response))
    ELSE IF ~ParsePayload(response).ok
    THEN ParsePayload(response)
    ELSE IF Truthy(Get(response, K.FunctionError))
    THEN IF Get(response, K.FunctionError) = Str(M.Unhandled)
         THEN UnhandledError(ParsePayload(response).v)
         ELSE HandledError(ParsePayload(response).v)
    ELSE ParsePayload(response)

\* what invokeRequestResponse does with the response of the transport
invokeRequestResponse(lambdaFunction, response) ==
    IF ~IsSuccessStatus(Get(response, K.StatusCode))
    THEN Throw(ServiceFailure(lambdaFunction, response))
    ELSE IF ~ParsePayload(response).ok
    THEN ParsePayload(response)
    ELSE IF Truthy(Get(response, K.FunctionError))
    THEN IF Get(response, K.FunctionError) = Str(M.Unhandled)
         THEN UnhandledError(ParsePayload(response).v)
         ELSE IF Get(response, K.FunctionError) = Str(M.Handled)
         THEN HandledError(ParsePayload(response).v)
         ELSE Throw(Err(Str(M.UnrecognizedPrefix \o ToString_(Get(response, K.FunctionError)) \o <<"'">>)))
    ELSE ParsePayload(response)

\* a faulty variant: every status of the 2xx class taken as the acceptance
invokeEvent_AnySuccess(lambdaFunction, response) ==
    IF Get(response, K.StatusCode) \in {Num(200), Num(202)}
    THEN Return(Bool(TRUE))
    ELSE Throw(ServiceFailure(lambdaFunction, response))

\* what invokeEvent does with the response of the transport
invokeEvent(lambdaFunction, response) ==
    IF Get(response, K.StatusCode) # Num(202)
    THEN Throw(ServiceFailure(lambdaFunction, response))
    ELSE Return(Bool(TRUE))

(***************************************************************************)
(* The warmer: lambda(async () => { await Promise.all(lambdasToWarm.map(   *)
(* createLambdaWarmerLogicHandler)) }).                                    *)
(***************************************************************************)
\* a faulty variant: no try and catch around the call
createLambdaWarmerLogicHandler_Rethrow(dispatched) == dispatched
\* try { await invokeEvent(lambdaToWarm, { warmupOnly: true }) } catch (error) {
\* console.error(...) }: whatever invokeEvent did, the promise resolves with undefined
createLambdaWarmerLogicHandler(dispatched) == Return(Undefined)

\* Promise.all of the promises whose results are given, Undefined for one still
\* pending: rejected as soon as one is rejected, fulfilled when all are, pending else
PromiseAll(results) ==
    IF \E k \in 1..Len(results) : results[k] # Undefined /\ ~results[k].ok
    THEN Throw((results[CHOOSE k \in 1..Len(results) : results[k] # Undefined /\ ~results[k].ok]).error)
    ELSE IF \A k \in 1..Len(results) : results[k] # Undefined
    THEN Return(Arr([k \in 1..Len(results) |-> results[k].v]))
    ELSE Undefined


(***************************************************************************)
(* The handlers the module exports, as the factory composes them.          *)
(***************************************************************************)
Variants == {"lambda", "api", "apiMethods", "postRaw", "postFormUrlEncoded"}
ApiVariants == {"api", "apiMethods"}

Preprocessor(variant, ev) ==
    CASE variant = "lambda" -> preprocessorPassthrough(ev)
      [] variant \in ApiVariants -> preprocessorBodyJson(ev)
      [] variant = "postRaw" -> preprocessorBody64(ev)
      [] variant = "postFormUrlEncoded" -> preprocessorBody64FormUrlEncoded(ev)

\* a faulty variant: the decoded body assigned to the event of the host (event.body = ...)
EventAfterPreprocess_InPlace(variant, ev) ==
    IF Preprocessor(variant, ev).ok THEN Preprocessor(variant, ev).v ELSE ev
\* the event object of the host once the preprocessor has run: the preprocessors build
\* the new call with spreads, { ...call, event: { ...call.event, body } }, the form
\* decoder fills a local body, and none assigns to a property of call.event
EventAfterPreprocess(variant, ev) == ev

DataHandler(h, data) ==
    IF h.variant \in ApiVariants THEN dataHandlerApiWithOptions(h.options, data)
    ELSE dataHandlerPassthrough(data)

\* the error handler once the hook, if any, has returned
ErrorHandler(h, error) ==
    IF h.variant \in ApiVariants THEN errorHandlerApiResponse(h.options, error)
    ELSE errorHandlerPassthrough(error)

\* if (options.errorPreHandler) options.errorPreHandler(call.error)
HookConfigured(h) == h.variant \in ApiVariants /\ h.options.errorPreHandler # "none"
HookThrows(h) == HookConfigured(h) /\ h.options.errorPreHandler = "throws"

\* a faulty variant: the marker tested for truthiness instead of identity with true
IsWarmup_Truthy(ev) == Truthy(Get(ev, K.warmupOnly))
\* event.warmupOnly === true
IsWarmup(ev) == Get(ev, K.warmupOnly) = Bool(TRUE)

\* const call: LambdaCall = { event, context, callback }
CallOf(ev) ==
    Obj(<<Prop(K.event, ev), Prop(K.context, Obj(<<>>)), Prop(K.callback, Function)>>)

\* mapping[lowerMethod] of a mapping written as an object literal: "own" for a handler
\* of the mapping, else what the literal inherits from Object.prototype, the function
\* Object ("constructor") or the prototype itself ("proto"), else "undefined"
Lookup(mapping, lowerMethod) ==
    IF lowerMethod \in mapping THEN "own"
    ELSE IF lowerMethod = K.constructor THEN "constructor"
    ELSE IF lowerMethod = K.proto THEN "proto"
    ELSE "undefined"

\* the mapper of apiMethods up to the delegation: throws, or names the property of the
\* mapping it calls
mapper(mapping, ev) ==
    IF ~Truthy(Get(ev, K.httpMethod))
    THEN Throw(badImplementation(Str(M.NoHttpMethod)))
    ELSE IF Lookup(mapping, toLower(ToString_(Get(ev, K.httpMethod)))) = "undefined"
    THEN Throw(badRequest(Str(M.UnsupportedPrefix \o ToString_(Get(ev, K.httpMethod)) \o M.UnsupportedSuffix)))
    ELSE Return(Str(toLower(ToString_(Get(ev, K.httpMethod)))))

\* mapping[lowerMethod](call) for a property the mapping inherits: Object(call) returns
\* the call, and calling the prototype is a TypeError
Inherited(kind, ev) ==
    IF kind = "constructor" THEN Return(CallOf(ev)) ELSE Throw(Err(Str(M.NotAFunction)))

(***************************************************************************)
(* The inputs: handlers, events, what the user logic returns or throws,    *)
(* what the host's callback and the configured hook do.                    *)
(***************************************************************************)
MaxInvocations == 2
Invocations == 1..MaxInvocations

\* the texts of the handlers and events the program is run with
T ==
    [foobar |->
        <<"f", "o", "o", "b", "a", "r">>,
      fail |->
        <<"f", "a", "i", "l">>,
      redirect |->
        <<"r", "e", "d", "i", "r", "e", "c", "t">>,
      invalid |->
        <<"i", "n", "v", "a", "l", "i", "d", " ", "p", "a", "r", "a", "m", "e", "t", "e", "r", "s", " ", "p", "r", "o", "v", "i", "d", "e", "d">>,
      GET |->
        <<"G", "E", "T">>,
      get |->
        <<"g", "e", "t">>,
      post |->
        <<"p", "o", "s", "t">>,
      Post |->
        <<"P", "o", "s", "t">>,
      CONSTRUCTOR |->
        <<"C", "O", "N", "S", "T", "R", "U", "C", "T", "O", "R">>,
      PROTO |->
        <<"_", "_", "P", "R", "O", "T", "O", "_", "_">>,
      world |->
        <<"w", "o", "r", "l", "d">>,
      true |->
        <<"t", "r", "u", "e">>,
      hook |->
        <<"h", "o", "o", "k", " ", "f", "a", "i", "l", "e", "d">>,
      callback |->
        <<"c", "a", "l", "l", "b", "a", "c", "k", " ", "f", "a", "i", "l", "e", "d">>,
      origin |->
        <<"A", "c", "c", "e", "s", "s", "-", "C", "o", "n", "t", "r", "o", "l", "-", "A", "l", "l", "o", "w", "-", "O", "r", "i", "g", "i", "n">>,
      XOther |->
        <<"X", "-", "O", "t", "h", "e", "r">>,
      jsonBody |->
        <<"{", "\"", "c", "o", "d", "e", "\"", ":", "4", "2", "}">>,
      badJsonBody |->
        <<"{", "a">>,
      \* base64 of a=1&b=2 and of a=1&b
      form64 |->
        <<"Y", "T", "0", "x", "J", "m", "I", "9", "M", "g", "=", "=">>,
      badForm64 |->
        <<"Y", "T", "0", "x", "J", "m", "I", "=">>,
      handledJson |->
        <<"{", "\"", "e", "r", "r", "o", "r", "M", "e", "s", "s", "a", "g", "e", "\"", ":", "\"", "{", "\\", "\"", "c", "o", "d", "e", "\\", "\"", ":", "4", "2", "}", "\"", "}">>,
      handledText |->
        <<"{", "\"", "e", "r", "r", "o", "r", "M", "e", "s", "s", "a", "g", "e", "\"", ":", "\"", "F", "a", "i", "l", "e", "d", " ", "t", "o", " ", "a", "d", "d", " ", "n", "u", "m", "b", "e", "r", "s", "\"", "}">>,
      unhandled |->
        <<"{", "\"", "e", "r", "r", "o", "r", "M", "e", "s", "s", "a", "g", "e", "\"", ":", "\"", "U", "n", "e", "x", "p", "e", "c", "t", "e", "d", " ", "t", "o", "k", "e", "n", " ", "{", "\"", ",", "\"", "e", "r", "r", "o", "r", "T", "y", "p", "e", "\"", ":", "\"", "S", "y", "n", "t", "a", "x", "E", "r", "r", "o", "r", "\"", ",", "\"", "s", "t", "a", "c", "k", "T", "r", "a", "c", "e", "\"", ":", "[", "\"", "M", "o", "d", "u", "l", "e", ".", "l", "o", "a", "d", " ", "(", "m", "o", "d", "u", "l", "e", ".", "j", "s", ":", "3", "4", "3", ":", "3", "2", ")", "\"", "]", "}">>,
      text |->
        <<"\"", "f", "o", "o", "b", "a", "r", "\"">>,
      data |->
        <<"{", "\"", "d", "a", "t", "a", "\"", ":", "{", "\"", "h", "e", "l", "l", "o", "\"", ":", "\"", "f", "o", "o", "b", "a", "r", "\"", ",", "\"", "c", "o", "d", "e", "\"", ":", "3", "}", "}">>,
      null |->
        <<"n", "u", "l", "l">>,
      notJson |->
        <<"{", "a">>,
      emptyObject |->
        <<"{", "}">>,
      other |->
        <<"O", "t", "h", "e", "r">>,
      adder |->
        <<"a", "d", "d", "e", "r">>,
      myFunction |->
        <<"m", "y", "-", "f", "u", "n", "c", "t", "i", "o", "n">>,
      transport |->
        <<"s", "o", "c", "k", "e", "t", " ", "h", "a", "n", "g", " ", "u", "p">> ]


CorsHeaders == Obj(<<Prop(T.origin, Str(<<"*">>))>>)
NoOptions ==
    [headers |-> Undefined, dataHeaders |-> Undefined, errorHeaders |-> Undefined,
     errorPreHandler |-> "none"]
Options ==
    [headers : {Undefined, CorsHeaders}, dataHeaders : {Undefined}, errorHeaders : {Undefined},
     errorPreHandler : {"none", "returns", "throws"}]
    \cup { [headers |-> h, dataHeaders |-> d, errorHeaders |-> e, errorPreHandler |-> "none"] :
             h \in {Undefined, CorsHeaders},
             d \in {Undefined, Obj(<<Prop(T.origin, Str(T.foobar))>>)},
             e \in {Undefined, Obj(<<Prop(T.XOther, Str(<<"*">>))>>)} }
Mappings == {{T.get, T.post}, {T.post}}

Handlers ==
    [variant : {"lambda", "postRaw", "postFormUrlEncoded"}, options : {NoOptions}, mapping : {{}}]
    \cup [variant : {"api"}, options : Options, mapping : {{}}]
    \cup [variant : {"apiMethods"}, options : Options, mapping : Mappings]

\* the encodings an HTTP client and gateway apply to a form: its fields as
\* key=value joined by &, a space as +, other reserved characters as %XX,
\* and the text in base64
CodeOf(c) == 31 + CHOOSE k \in 1..Len(Printable) : Printable[k] = c
FormEncodeChar(c) ==
    LET HexUpper == <<"0","1","2","3","4","5","6","7","8","9","A","B","C","D","E","F">>
        IsUnreserved ==
            \/ \E k \in 1..26 : UpperCase[k] = c \/ LowerCase[k] = c
            \/ \E k \in 1..10 : Digit[k] = c
            \/ c \in {"-", "_", ".", "*"}
    IN IF IsUnreserved THEN <<c>>
       ELSE IF c = " " THEN <<"+">>
       ELSE <<"%", HexUpper[(CodeOf(c) \div 16) + 1], HexUpper[(CodeOf(c) % 16) + 1]>>
FormEncode(fields) ==
    LET FormEncodeText(s) ==
            LET F[n \in 0..Len(s)] == IF n = 0 THEN <<>> ELSE F[n - 1] \o FormEncodeChar(s[n])
            IN F[Len(s)]
    IN Join([n \in 1..Len(fields) |->
                FormEncodeText(fields[n].k) \o <<"=">> \o FormEncodeText(fields[n].v.s)], <<"&">>)
RECURSIVE Base64EncodeBytes(_)
Base64EncodeBytes(b) ==
    IF Len(b) = 0 THEN <<>>
    ELSE IF Len(b) = 1
    THEN <<Base64Alphabet[(b[1] \div 4) + 1], Base64Alphabet[(b[1] % 4) * 16 + 1], "=", "=">>
    ELSE IF Len(b) = 2
    THEN <<Base64Alphabet[(b[1] \div 4) + 1], Base64Alphabet[(b[1] % 4) * 16 + (b[2] \div 16) + 1],
           Base64Alphabet[(b[2] % 16) * 4 + 1], "=">>
    ELSE <<Base64Alphabet[(b[1] \div 4) + 1], Base64Alphabet[(b[1] % 4) * 16 + (b[2] \div 16) + 1],
           Base64Alphabet[(b[2] % 16) * 4 + (b[3] \div 64) + 1], Base64Alphabet[(b[3] % 64) + 1]>>
         \o Base64EncodeBytes(SubSeq(b, 4, Len(b)))
Base64Encode(s) == Base64EncodeBytes([n \in 1..Len(s) |-> CodeOf(s[n])])

\* forms: the empty one, the one of the README, reserved characters, an empty value,
\* a field named as the prototype
FormMappings ==
    { <<>>,
      <<Prop(<<"a">>, Str(<<"1">>)), Prop(<<"b">>, Str(<<"2">>))>>,
      <<Prop(<<"a", " ", "b">>, Str(<<"x", "=", "y", "&", "z", "+", "%">>))>>,
      <<Prop(<<"k">>, Str(<<>>)), Prop(<<"b">>, Str(<<"2">>))>>,
      <<Prop(K.proto, Str(<<"x">>))>> }
\* form texts with a pair that cannot be decoded: the last, the first, one in the
\* middle (a stray %), one with two =
MalformedForms ==
    { <<"a", "=", "1", "&", "b">>,
      <<"a", "&", "b", "=", "2">>,
      <<"a", "=", "1", "&", "%", "=", "2", "&", "c", "=", "3">>,
      <<"a", "=", "1", "&", "b", "=", "2", "=", "3">> }
EncodedEvent(text) == Obj(<<Prop(K.body64, Str(Base64Encode(text)))>>)
FormEvents ==
    {EncodedEvent(FormEncode(fields)) : fields \in FormMappings}
    \cup {EncodedEvent(text) : text \in MalformedForms}

TestEvent == Obj(<<Prop(K.hello, Str(T.world)), Prop(K.httpMethod, Str(T.GET))>>)
FormEvent == Obj(<<Prop(K.body64, Str(T.form64))>>)
BaseEvents ==
    { TestEvent,
      FormEvent,
      Obj(<<>>),
      Obj(<<Prop(K.httpMethod, Str(T.post)), Prop(K.body, Str(T.jsonBody))>>),
      Obj(<<Prop(K.httpMethod, Str(T.GET)), Prop(K.body, Str(T.badJsonBody))>>),
      Obj(<<Prop(K.body, Str(<<>>))>>),
      Obj(<<Prop(K.body64, Str(T.badForm64))>>),
      Obj(<<Prop(K.body64, Str(T.form64)), Prop(K.body, Str(T.jsonBody))>>),
      Obj(<<Prop(K.body64, Num(5))>>),
      Obj(<<Prop(K.body64, Str(T.form64)), Prop(K.body, Str(<<>>))>>),
      Obj(<<Prop(K.httpMethod, Str(<<>>))>>),
      Obj(<<Prop(K.httpMethod, Str(T.Post))>>),
      Obj(<<Prop(K.httpMethod, Str(T.CONSTRUCTOR))>>),
      Obj(<<Prop(K.httpMethod, Str(T.PROTO))>>) }
WarmupMarkers == {Bool(TRUE), Bool(FALSE), Str(T.true), Num(1), Null}
Events ==
    BaseEvents \cup FormEvents \cup {Spread(e, K.warmupOnly, w) : e \in {TestEvent, FormEvent}, w \in WarmupMarkers}

ReturnValues ==
    { Str(T.foobar), Str(<<>>), Num(23), Null, Undefined, Bool(FALSE),
      Arr(<<Num(1), Str(T.foobar)>>),
      Obj(<<Prop(K.data, Obj(<<Prop(K.hello, Str(T.foobar)), Prop(K.code, Num(3))>>))>>),
      Obj(<<Prop(K.statusCode, Num(302)), Prop(K.body, Str(T.redirect))>>),
      Obj(<<Prop(K.statusCode, Num(419)), Prop(K.body, Obj(<<Prop(K.message, Str(T.foobar))>>)),
            Prop(K.headers, Obj(<<Prop(T.XOther, Str(T.foobar))>>))>>),
      Obj(<<Prop(K.statusCode, Num(204))>>),
      Obj(<<Prop(K.statusCode, Str(<<"2", "0", "0">>)), Prop(K.body, Str(T.foobar))>>),
      Obj(<<Prop(K.statusCode, Frac(200)), Prop(K.body, Str(T.foobar))>>),
      Obj(<<Prop(K.statusCode, NaN)>>),
      Obj(<<Prop(K.statusCode, Null)>>),
      Obj(<<Prop(K.statusCode, Bool(TRUE))>>) }

ThrownValues ==
    { Err(Str(T.fail)), badRequest(Str(T.invalid)), Str(T.fail),
      Obj(<<Prop(K.message, Str(T.fail))>>), Obj(<<Prop(K.code, Num(42))>>), Null, Undefined }

\* the user logic returns or throws at once, or returns a promise settled later
LogicResults == {Return(v) : v \in ReturnValues} \cup {Throw(e) : e \in ThrownValues}
\* the value a hook and a callback throw when they throw
HookError == Err(Str(T.hook))
CallbackError == Err(Str(T.callback))

\* the invocation client: the functions and events it is called with, and what the
\* transport answers
MaxFunctions == 2
Functions == IF MaxFunctions >= 3 THEN {T.adder, T.myFunction, T.other}
             ELSE IF MaxFunctions = 2 THEN {T.adder, T.myFunction} ELSE {T.adder}
ClientEvents == {TestEvent, Obj(<<>>), Undefined}
Statuses == {Num(200), Num(202), Num(500), Str(<<"2", "0", "0">>), Undefined}
FunctionErrors == {Undefined, Str(M.Unhandled), Str(M.Handled), Str(T.other), Str(<<>>)}
Payloads ==
    { Str(T.handledJson), Str(T.handledText), Str(T.unhandled), Str(T.text), Str(T.data),
      Str(T.null), Str(T.notJson), Str(T.emptyObject), Str(<<>>), Undefined }
\* the response of lambdaService.invoke, the fields the transport leaves out left out
ResponseOf(statusCode, functionError, payload) ==
    Obj(SelectSeq(<<Prop(K.StatusCode, statusCode), Prop(K.FunctionError, functionError),
                    Prop(K.Payload, payload)>>, LAMBDA p : p.v # Undefined))
Responses == {ResponseOf(s, f, p) : s \in Statuses, f \in FunctionErrors, p \in Payloads}
\* the error lambdaService.invoke rejects with when the request itself fails
TransportError == Err(Str(T.transport))

\* the warmer: the lists of functions it is built with, the events the host invokes it
\* with, and what the transport answers to a dispatch
MaxTargets == 2
TargetLists == UNION {[1..n -> Functions] : n \in 0..MaxTargets}
WarmerEvents == {Obj(<<>>), TestEvent, Obj(<<Prop(K.warmupOnly, Bool(TRUE))>>)}
WarmupEvent == Obj(<<Prop(K.warmupOnly, Bool(TRUE))>>)
DispatchResponses ==
    { ResponseOf(Num(202), Undefined, Str(<<>>)),
      ResponseOf(Num(200), Undefined, Str(T.null)),
      ResponseOf(Num(500), Str(M.Unhandled), Str(T.unhandled)) }

(***************************************************************************)
(* State: per invocation, the position in the promise chain, the handler   *)
(* and event the host invoked it with, the value the chain carries (the    *)
(* call's event, then the data or the error), and the stages entered.      *)
(* For the invocation client: the position of a call, the parameters it    *)
(* gave the transport, the response it got, what it returned or threw.     *)
(* For the warmer: the position of its chain, the list and event of the    *)
(* run, the dispatch to each target, the value the chain carries, and what *)
(* happened in order.                                                      *)
(***************************************************************************)
VARIABLES pc, handler, event, value, log, cpc, params, response, outcome,
          wpc, warmer, wcalls, wvalue, wlog
pipelineVars == <<pc, handler, event, value, log>>
clientVars == <<cpc, params, response, outcome>>
warmerVars == <<wpc, warmer, wcalls, wvalue, wlog>>
vars == <<pc, handler, event, value, log, cpc, params, response, outcome,
          wpc, warmer, wcalls, wvalue, wlog>>

Entry(stage, a, b) == [stage |-> stage, a |-> a, b |-> b]
CallbackEntry(r) == Entry("callback", r.err, r.data)

Init ==
    /\ pc = [i \in Invocations |-> "idle"]
    /\ handler = [i \in Invocations |-> [variant |-> "lambda", options |-> NoOptions, mapping |-> {}]]
    /\ event = [i \in Invocations |-> Undefined]
    /\ value = [i \in Invocations |-> Undefined]
    /\ log = [i \in Invocations |-> <<>>]
    /\ cpc = "idle"
    /\ params = Undefined
    /\ response = Undefined
    /\ outcome = Undefined
    /\ wpc = "idle"
    /\ warmer = Undefined
    /\ wcalls = <<>>
    /\ wvalue = Undefined
    /\ wlog = <<>>

\* where the chain goes: .then(preprocessor).then(logicHandler).then(data).catch(error)
AfterPreprocess(threw) == IF threw THEN "catch" ELSE "logic"
\* a faulty variant: the data handler chained after the logic whatever it did
AfterLogicHandler_Always(threw) == "data"
AfterLogicHandler(threw) == IF threw THEN "catch" ELSE "data"
\* a faulty variant: the error handler chained after the data handler whatever it did
AfterDataHandler_Always(threw) == "catch"
AfterDataHandler(threw) == IF threw THEN "catch" ELSE "done"
AfterErrorHandler(threw) == IF threw THEN "rejected" ELSE "done"

\* the host invokes the handler: the warm-up short circuit, or the chain is started
Invoke(i) ==
    /\ pc[i] = "idle"
    /\ \A j \in Invocations \ {i} : pc[j] = "idle"
    /\ \E h \in Handlers, ev \in Events, callbackThrows \in BOOLEAN :
        /\ handler' = [handler EXCEPT ![i] = h]
        /\ event' = [event EXCEPT ![i] = ev]
        /\ IF IsWarmup(ev)
           THEN /\ log' = [log EXCEPT ![i] = Append(@, Entry("callback", Null, Null))]
                /\ pc' = [pc EXCEPT ![i] = IF callbackThrows THEN "threw" ELSE "done"]
                /\ value' = [value EXCEPT ![i] = IF callbackThrows THEN CallbackError ELSE Undefined]
           ELSE /\ ~callbackThrows
                /\ log' = log
                /\ pc' = [pc EXCEPT ![i] = "preprocess"]
                /\ value' = [value EXCEPT ![i] = ev]
    /\ UNCHANGED <<clientVars, warmerVars>>

\* .then(preprocessor)
Preprocess(i) ==
    /\ pc[i] = "preprocess"
    /\ LET r == Preprocessor(handler[i].variant, value[i])
       IN /\ log' = [log EXCEPT ![i] = Append(@, Entry("preprocess", value[i], Undefined))]
          /\ pc' = [pc EXCEPT ![i] = AfterPreprocess(~r.ok)]
          /\ value' = [value EXCEPT ![i] = IF r.ok THEN r.v ELSE r.error]
          /\ event' = [event EXCEPT ![i] = EventAfterPreprocess(handler[i].variant, event[i])]
    /\ UNCHANGED handler
    /\ UNCHANGED <<clientVars, warmerVars>>

\* how the user logic ended: r.v returned or resolved, r.error thrown or rejected
Outcome(r, async) ==
    IF r.ok THEN Entry(IF async THEN "resolved" ELSE "returned", r.v, Undefined)
    ELSE Entry(IF async THEN "rejected" ELSE "threw", r.error, Undefined)

\* the logic handler returned r.v or threw r.error, or (pending) returned a promise
AfterLogic(i, entries, r, pending) ==
    /\ log' = [log EXCEPT ![i] = @ \o entries \o (IF pending THEN <<>> ELSE <<Outcome(r, FALSE)>>)]
    /\ pc' = [pc EXCEPT ![i] = IF pending THEN "await" ELSE AfterLogicHandler(~r.ok)]
    /\ value' = [value EXCEPT ![i] = IF pending THEN Undefined ELSE IF r.ok THEN r.v ELSE r.error]

\* .then(logicHandler): the user logic, or the mapper and the handler it delegates to
Logic(i) ==
    /\ pc[i] = "logic"
    /\ LET called == Entry("logic", value[i], Undefined)
           m == mapper(handler[i].mapping, value[i])
       IN IF handler[i].variant # "apiMethods"
          THEN \E r \in LogicResults, pending \in BOOLEAN : AfterLogic(i, <<called>>, r, pending)
          ELSE IF ~m.ok
          THEN AfterLogic(i, <<called>>, m, FALSE)
          ELSE IF Lookup(handler[i].mapping, m.v.s) = "own"
          THEN \E r \in LogicResults, pending \in BOOLEAN :
                 AfterLogic(i, <<called, Entry("method", value[i], m.v)>>, r, pending)
          ELSE AfterLogic(i, <<called, Entry("inherited", value[i], m.v)>>,
                          Inherited(Lookup(handler[i].mapping, m.v.s), value[i]), FALSE)
    /\ UNCHANGED <<handler, event>>
    /\ UNCHANGED <<clientVars, warmerVars>>

\* the promise the logic returned is resolved or rejected
Settle(i) ==
    /\ pc[i] = "await"
    /\ \E r \in LogicResults :
        /\ log' = [log EXCEPT ![i] = Append(@, Outcome(r, TRUE))]
        /\ pc' = [pc EXCEPT ![i] = AfterLogicHandler(~r.ok)]
        /\ value' = [value EXCEPT ![i] = IF r.ok THEN r.v ELSE r.error]
    /\ UNCHANGED <<handler, event>>
    /\ UNCHANGED <<clientVars, warmerVars>>

\* .then((data) => dataHandler({ ...call, data }))
HandleData(i) ==
    /\ pc[i] = "data"
    /\ LET r == DataHandler(handler[i], value[i])
           entered == Entry("data", value[i], Undefined)
       IN IF ~r.ok
          THEN /\ log' = [log EXCEPT ![i] = Append(@, entered)]
               /\ pc' = [pc EXCEPT ![i] = AfterDataHandler(TRUE)]
               /\ value' = [value EXCEPT ![i] = r.error]
          ELSE \E callbackThrows \in BOOLEAN :
               /\ log' = [log EXCEPT ![i] = @ \o <<entered, CallbackEntry(r)>>]
               /\ pc' = [pc EXCEPT ![i] = AfterDataHandler(callbackThrows)]
               /\ value' = [value EXCEPT ![i] = IF callbackThrows THEN CallbackError ELSE value[i]]
    /\ UNCHANGED <<handler, event>>
    /\ UNCHANGED <<clientVars, warmerVars>>

\* .catch((error) => errorHandler({ ...call, error })): nothing follows the catch, so
\* what the error handler throws is an unhandled rejection
HandleError(i) ==
    /\ pc[i] = "catch"
    /\ LET r == ErrorHandler(handler[i], value[i])
           entered == Entry("error", value[i], Undefined)
           hook == IF HookConfigured(handler[i]) THEN <<Entry("hook", value[i], Undefined)>> ELSE <<>>
       IN IF HookThrows(handler[i])
          THEN /\ log' = [log EXCEPT ![i] = @ \o <<entered>> \o hook]
               /\ pc' = [pc EXCEPT ![i] = AfterErrorHandler(TRUE)]
               /\ value' = [value EXCEPT ![i] = HookError]
          ELSE \E callbackThrows \in BOOLEAN :
               /\ log' = [log EXCEPT ![i] = @ \o <<entered>> \o hook \o <<CallbackEntry(r)>>]
               /\ pc' = [pc EXCEPT ![i] = AfterErrorHandler(callbackThrows)]
               /\ value' = [value EXCEPT ![i] = IF callbackThrows THEN CallbackError ELSE value[i]]
    /\ UNCHANGED <<handler, event>>
    /\ UNCHANGED <<clientVars, warmerVars>>

Next ==
    \E i \in Invocations :
        \/ Invoke(i)
        \/ Preprocess(i)
        \/ Logic(i)
        \/ Settle(i)
        \/ HandleData(i)
        \/ HandleError(i)

Spec == Init /\ [][Next]_vars

\* the host invokes the handler again while earlier invocations of it are suspended at
\* a then of their chains: every invocation is of the same handler, a new activation
\* of the function buildHandlerFactory returns, with a call of its own
InterleavedInvoke(i) ==
    /\ pc[i] = "idle"
    /\ \E h \in {x \in Handlers : x.variant \in {"api", "postFormUrlEncoded"} /\ x.options = NoOptions},
          ev \in {FormEvent, Obj(<<Prop(K.httpMethod, Str(T.post)), Prop(K.body, Str(T.jsonBody))>>)} :
        /\ \A j \in Invocations : pc[j] # "idle" => handler[j] = h
        /\ handler' = [handler EXCEPT ![i] = h]
        /\ event' = [event EXCEPT ![i] = ev]
        /\ ~IsWarmup(ev)
        /\ log' = log
        /\ pc' = [pc EXCEPT ![i] = "preprocess"]
        /\ value' = [value EXCEPT ![i] = ev]
    /\ UNCHANGED <<clientVars, warmerVars>>

InterleavedNext ==
    \E i \in Invocations :
        \/ InterleavedInvoke(i)
        \/ Preprocess(i)
        \/ Logic(i)
        \/ Settle(i)
        \/ HandleData(i)
        \/ HandleError(i)

InterleavedSpec == Init /\ [][InterleavedNext]_vars

\* invokeRequestResponse up to the await: the request is given to the transport
CallInvokeRequestResponse ==
    /\ cpc = "idle"
    /\ \E lambdaFunction \in Functions, lambdaEvent \in ClientEvents :
          params' = InvokeParams(lambdaFunction, lambdaEvent, M.RequestResponse)
    /\ cpc' = "awaiting"
    /\ UNCHANGED <<response, outcome>>
    /\ UNCHANGED <<pipelineVars, warmerVars>>

CallInvokeEvent ==
    /\ cpc = "idle"
    /\ \E lambdaFunction \in Functions, lambdaEvent \in ClientEvents :
          params' = InvokeParams(lambdaFunction, lambdaEvent, M.Event)
    /\ cpc' = "awaiting"
    /\ UNCHANGED <<response, outcome>>
    /\ UNCHANGED <<pipelineVars, warmerVars>>

\* the promise of lambdaService.invoke resolves: the rest of invokeRequestResponse or
\* of invokeEvent, whichever made the call
InvokeResolves ==
    /\ cpc = "awaiting"
    /\ \E r \in Responses :
          LET lambdaFunction == Get(params, K.FunctionName).s
              result == IF Get(params, K.InvocationType) = Str(M.Event)
                        THEN invokeEvent(lambdaFunction, r)
                        ELSE invokeRequestResponse(lambdaFunction, r)
          IN /\ response' = r
             /\ outcome' = result
             /\ cpc' = IF result.ok THEN "returned" ELSE "threw"
    /\ UNCHANGED params
    /\ UNCHANGED <<pipelineVars, warmerVars>>

\* the promise of lambdaService.invoke rejects: the await throws what it rejected with
InvokeRejects ==
    /\ cpc = "awaiting"
    /\ outcome' = Throw(TransportError)
    /\ cpc' = "threw"
    /\ UNCHANGED <<params, response>>
    /\ UNCHANGED <<pipelineVars, warmerVars>>

ClientNext ==
    \/ CallInvokeRequestResponse
    \/ CallInvokeEvent
    \/ InvokeResolves
    \/ InvokeRejects

ClientSpec == Init /\ [][ClientNext]_vars

\* the host invokes the handler lambdaWarmer(lambdasToWarm) built: the warm-up test of
\* buildHandlerFactory, the passthrough preprocessor, and the logic up to its await,
\* in which map calls createLambdaWarmerLogicHandler for each target in turn and each
\* call runs up to the await of lambdaService.invoke
WarmerInvoke ==
    /\ wpc = "idle"
    /\ \E lambdasToWarm \in TargetLists, ev \in WarmerEvents, callbackThrows \in BOOLEAN :
        /\ warmer' = [lambdasToWarm |-> lambdasToWarm, event |-> ev]
        /\ IF IsWarmup(ev)
           THEN /\ wlog' = <<Entry("callback", Null, Null)>>
                /\ wpc' = IF callbackThrows THEN "threw" ELSE "done"
                /\ wvalue' = IF callbackThrows THEN CallbackError ELSE Undefined
                /\ wcalls' = <<>>
           ELSE /\ ~callbackThrows
                /\ wcalls' = [k \in 1..Len(lambdasToWarm) |->
                                 [params |-> InvokeParams(lambdasToWarm[k], WarmupEvent, M.Event),
                                  dispatched |-> Undefined, result |-> Undefined]]
                /\ wlog' = [k \in 1..Len(lambdasToWarm) |->
                               Entry("invoke", k, InvokeParams(lambdasToWarm[k], WarmupEvent, M.Event))]
                /\ wpc' = "warming"
                /\ wvalue' = preprocessorPassthrough(ev).v
    /\ UNCHANGED <<pipelineVars, clientVars>>

\* the promise of lambdaService.invoke of the call to target k settles: the rest of
\* invokeEvent, then the rest of createLambdaWarmerLogicHandler
WarmupSettles(k) ==
    /\ wpc = "warming"
    /\ k \in 1..Len(wcalls)
    /\ wcalls[k].dispatched = Undefined
    /\ \E d \in {invokeEvent(warmer.lambdasToWarm[k], r) : r \in DispatchResponses}
                \cup {Throw(TransportError)} :
          /\ wcalls' = [wcalls EXCEPT ![k].dispatched = d,
                                      ![k].result = createLambdaWarmerLogicHandler(d)]
          /\ wlog' = Append(wlog, Entry("settle", k, d))
    /\ UNCHANGED <<wpc, warmer, wvalue>>
    /\ UNCHANGED <<pipelineVars, clientVars>>

\* Promise.all settles and the logic with it: .then(dataHandler) if it is fulfilled,
\* the data undefined, .catch(errorHandler) if it is rejected
WarmerSettle ==
    /\ wpc = "warming"
    /\ LET all == PromiseAll([k \in 1..Len(wcalls) |-> wcalls[k].result])
       IN /\ all # Undefined
          /\ IF ~all.ok
             THEN /\ wpc' = AfterLogicHandler(TRUE)
                  /\ wvalue' = all.error
                  /\ wlog' = wlog
             ELSE \E callbackThrows \in BOOLEAN :
                  /\ wlog' = wlog \o <<Entry("data", Undefined, Undefined),
                                       CallbackEntry(dataHandlerPassthrough(Undefined))>>
                  /\ wpc' = AfterDataHandler(callbackThrows)
                  /\ wvalue' = IF callbackThrows THEN CallbackError ELSE Undefined
    /\ UNCHANGED <<warmer, wcalls>>
    /\ UNCHANGED <<pipelineVars, clientVars>>

\* .catch((error) => errorHandler({ ...call, error })) of the warmer's chain
WarmerHandleError ==
    /\ wpc = "catch"
    /\ \E callbackThrows \in BOOLEAN :
          /\ wlog' = wlog \o <<Entry("error", wvalue, Undefined),
                               CallbackEntry(errorHandlerPassthrough(wvalue))>>
          /\ wpc' = AfterErrorHandler(callbackThrows)
          /\ wvalue' = IF callbackThrows THEN CallbackError ELSE wvalue
    /\ UNCHANGED <<warmer, wcalls>>
    /\ UNCHANGED <<pipelineVars, clientVars>>

WarmerNext ==
    \/ WarmerInvoke
    \/ \E k \in 1..MaxTargets : WarmupSettles(k)
    \/ WarmerSettle
    \/ WarmerHandleError

WarmerSpec == Init /\ [][WarmerNext]_vars

\* the chain of the invocation has run to its end
Settled(i) == pc[i] \in {"done", "rejected", "threw"}
Calls(i) == SelectSeq(log[i], LAMBDA e : e.stage = "callback")
Entered(i, stage) == \E n \in 1..Len(log[i]) : log[i][n].stage = stage

(***************************************************************************)
(* Properties                                                              *)
(***************************************************************************)
Started(i) == pc[i] # "idle"
IsApi(i) == Started(i) /\ handler[i].variant \in ApiVariants
Positions(i, stage) == {n \in 1..Len(log[i]) : log[i][n].stage = stage}
\* the host's event carries warmupOnly, the boolean true
WarmupOnlyIsTrue(i) ==
    /\ event[i].t = "object"
    /\ \E n \in 1..Len(event[i].e) : event[i].e[n] = Prop(K.warmupOnly, Bool(TRUE))
\* the entry after entry n is an invocation of the callback
CallbackFollows(i, n) == n + 1 <= Len(log[i]) /\ log[i][n + 1].stage = "callback"
IsResponse(v) ==
    v.t = "object" /\ Len(v.e) = 3
    /\ v.e[1].k = K.statusCode /\ v.e[2].k = K.body /\ v.e[3].k = K.headers
\* a plain mapping with a statusCode field, and one whose statusCode is an integer
HasStatusCode(v) == v.t = "object" /\ \E n \in 1..Len(v.e) : v.e[n].k = K.statusCode
ValidStatusCode(v) ==
    HasStatusCode(v) /\ Get(v, K.statusCode).t = "number" /\ Get(v, K.statusCode).kind = "int"
\* a body as the response carries it: a string as it is, anything else serialized
AsBody(b) == IF b.t = "string" THEN b ELSE JSONstringify(b)
GenericErrorBody ==
    <<"{", "\"", "s", "t", "a", "t", "u", "s", "C", "o", "d", "e", "\"", ":", "5", "0", "0", ",", "\"", "e", "r", "r", "o", "r", "\"", ":", "\"", "I", "n", "t", "e", "r", "n", "a", "l", " ", "S", "e", "r", "v", "e", "r", " ", "E", "r", "r", "o", "r", "\"", ",", "\"", "m", "e", "s", "s", "a", "g", "e", "\"", ":", "\"", "A", "n", " ", "i", "n", "t", "e", "r", "n", "a", "l", " ", "s", "e", "r", "v", "e", "r", " ", "e", "r", "r", "o", "r", " ", "o", "c", "c", "u", "r", "r", "e", "d", "\"", "}">>

\* C1: in every pipeline run the completion callback is invoked exactly once: never
\* twice, and never zero times once the chain has run to its end, whatever the stages,
\* the hook and the callback itself do.
C1_CallbackExactlyOnce ==
    \A i \in Invocations :
        /\ Len(Calls(i)) <= 1
        /\ Settled(i) => Len(Calls(i)) = 1

\* C2 as stated: without the warm-up marker, the data handler and the error handler are
\* never both entered in one run, and one of them is entered once the chain has ended.
C2_NeverBothHandlers ==
    \A i \in Invocations :
        Started(i) /\ ~WarmupOnlyIsTrue(i) =>
            /\ ~(Entered(i, "data") /\ Entered(i, "error"))
            /\ Settled(i) => Entered(i, "data") \/ Entered(i, "error")

\* the error handler at entry e handles what the data handler entered at d threw: the
\* error it raised itself, or the error of the callback it invoked
DataHandlerThrew(i, d, e) ==
    \/ /\ ~DataHandler(handler[i], log[i][d].a).ok
       /\ e = d + 1
       /\ log[i][e].a = DataHandler(handler[i], log[i][d].a).error
    \/ /\ CallbackFollows(i, d)
       /\ e = d + 2
       /\ log[i][e].a = CallbackError

\* C2 amended: without the warm-up marker, each handler is entered at most once, the
\* data handler never after the error handler, the error handler after the data handler
\* only to handle what the data handler threw, and one of them is entered once the chain
\* has ended.
C2_OneTerminalAction ==
    \A i \in Invocations :
        Started(i) /\ ~WarmupOnlyIsTrue(i) =>
            /\ Cardinality(Positions(i, "data")) <= 1
            /\ Cardinality(Positions(i, "error")) <= 1
            /\ \A d \in Positions(i, "data"), e \in Positions(i, "error") :
                  d < e /\ DataHandlerThrew(i, d, e)
            /\ Settled(i) => Entered(i, "data") \/ Entered(i, "error")

\* a run that ended with both handlers entered: the data handler rejected its data
C2_Witness ==
    \E i \in Invocations :
        /\ pc[i] = "done"
        /\ Entered(i, "data") /\ Entered(i, "error")
        /\ ~DataHandler(handler[i], log[i][CHOOSE d \in Positions(i, "data") : TRUE].a).ok

\* C3: with warmupOnly exactly true the callback is invoked with (null, null) and no
\* stage is invoked; with warmupOnly absent or anything else the pipeline runs, from the
\* preprocessor to one of the handlers.
C3_WarmupShortCircuit ==
    \A i \in Invocations :
        Started(i) =>
            IF WarmupOnlyIsTrue(i)
            THEN log[i] = <<Entry("callback", Null, Null)>> /\ Settled(i)
            ELSE /\ pc[i] # "threw"
                 /\ log[i] # <<>> => log[i][1].stage = "preprocess"
                 /\ pc[i] # "preprocess" => Entered(i, "preprocess")
                 /\ Settled(i) => Entered(i, "data") \/ Entered(i, "error")

C3_Witness ==
    \E i \in Invocations :
        /\ WarmupOnlyIsTrue(i)
        /\ handler[i].variant = "postFormUrlEncoded"
        /\ pc[i] = "done"
        /\ log[i] = <<Entry("callback", Null, Null)>>

\* C4: with lambda, once the chain has ended, logic that returned or resolved to v had
\* the callback invoked with (null, v), and logic that threw or rejected with e had the
\* callback invoked with e as its error argument, once, and the data handler not entered.
C4_LambdaMirrorsLogic ==
    \A i \in Invocations :
        Started(i) /\ handler[i].variant = "lambda" /\ ~WarmupOnlyIsTrue(i) /\ Settled(i) =>
            /\ \E n \in 1..Len(log[i]) : log[i][n].stage \in {"returned", "resolved", "threw", "rejected"}
            /\ \A n \in 1..Len(log[i]) :
                /\ log[i][n].stage \in {"returned", "resolved"} =>
                      /\ Len(Calls(i)) >= 1
                      /\ Calls(i)[1] = Entry("callback", Null, log[i][n].a)
                /\ log[i][n].stage \in {"threw", "rejected"} =>
                      /\ Calls(i) = <<Entry("callback", log[i][n].a, Undefined)>>
                      /\ ~Entered(i, "data")

C4_Witness ==
    \E i \in Invocations :
        /\ handler[i].variant = "lambda" /\ pc[i] = "done"
        /\ \E n \in 1..Len(log[i]) :
              /\ log[i][n].stage = "rejected"
              /\ log[i][n].a = Err(Str(T.fail))
        /\ Calls(i) = <<Entry("callback", Err(Str(T.fail)), Undefined)>>

\* C5: with the API variants, once a run in which something failed has ended, the
\* failure has been delivered to the callback after the error handler was entered, and
\* every invocation of the callback had a null error and a shaped response.
C5_ApiFailureIsResponse ==
    \A i \in Invocations :
        IsApi(i) /\ Settled(i) /\ Entered(i, "error") =>
            /\ \A n \in Positions(i, "callback") : log[i][n].a = Null /\ IsResponse(log[i][n].b)
            /\ \E e \in Positions(i, "error"), n \in Positions(i, "callback") : e < n

\* C6: with the API variants, the response the data handler passes to the callback has
\* a body that is a string, whatever the logic returned.
C6_BodyIsString ==
    \A i \in Invocations :
        IsApi(i) =>
            \A n \in Positions(i, "data") :
                CallbackFollows(i, n) => Get(log[i][n + 1].b, K.body).t = "string"

\* the response shaped from data v: its status code and its body
ShapedAs(i, n, statusCode, body) ==
    /\ CallbackFollows(i, n)
    /\ log[i][n + 1].a = Null
    /\ IsResponse(log[i][n + 1].b)
    /\ Get(log[i][n + 1].b, K.statusCode) = statusCode
    /\ Get(log[i][n + 1].b, K.body) = AsBody(body)
BodyField(v) == IF Get(v, K.body) = Undefined THEN Str(<<>>) ELSE Get(v, K.body)

\* C7 as stated: data with a valid integer statusCode is shaped with that status code and
\* its body field; all other data is shaped with status code 200 and itself as the body.
C7_AllOtherValuesAre200 ==
    \A i \in Invocations :
        IsApi(i) =>
            \A n \in Positions(i, "data") :
                IF ValidStatusCode(log[i][n].a)
                THEN ShapedAs(i, n, Get(log[i][n].a, K.statusCode), BodyField(log[i][n].a))
                ELSE ShapedAs(i, n, Num(200), log[i][n].a)

\* C7 amended: data with a valid integer statusCode is shaped with that status code and
\* its body field (the empty string if absent); data that is not a plain mapping with a
\* statusCode field is shaped with status code 200 and itself as the body.
C7_ShapedStatusCode ==
    \A i \in Invocations :
        IsApi(i) =>
            \A n \in Positions(i, "data") :
                /\ ValidStatusCode(log[i][n].a) =>
                      ShapedAs(i, n, Get(log[i][n].a, K.statusCode), BodyField(log[i][n].a))
                /\ ~HasStatusCode(log[i][n].a) => ShapedAs(i, n, Num(200), log[i][n].a)

C7_Witness ==
    \E i \in Invocations :
        /\ IsApi(i) /\ pc[i] = "done"
        /\ \E n \in Positions(i, "data") :
              /\ Get(log[i][n].a, K.statusCode) = Num(419)
              /\ CallbackFollows(i, n)
              /\ Get(log[i][n + 1].b, K.statusCode) = Num(419)

\* C8: data that is a plain mapping whose statusCode is not an integer is rejected by the
\* data handler with "Data handler returned invalid status code": no response is shaped
\* from it, and the response the run ends with is a 500.
C8_NonIntegerStatusRejected ==
    \A i \in Invocations :
        IsApi(i) =>
            \A n \in Positions(i, "data") :
                HasStatusCode(log[i][n].a) /\ ~ValidStatusCode(log[i][n].a) =>
                    /\ ~CallbackFollows(i, n)
                    /\ n + 1 <= Len(log[i]) =>
                          log[i][n + 1] = Entry("error", badImplementation(Str(M.InvalidStatusCode)), Undefined)
                    /\ Settled(i) =>
                          /\ Calls(i) # <<>>
                          /\ Get(Calls(i)[Len(Calls(i))].b, K.statusCode) = Num(500)

\* C9: the response the API error handler passes to the callback has the status code and
\* the serialized payload of the error when that is a structured HTTP error, and status
\* code 500 with the serialized generic payload for every other thrown value.
C9_ErrorResponse ==
    \A i \in Invocations :
        IsApi(i) =>
            \A e \in Positions(i, "error"), n \in Positions(i, "callback") :
                e < n =>
                    /\ log[i][n].a = Null
                    /\ IsResponse(log[i][n].b)
                    /\ IF log[i][e].a.t = "error" /\ log[i][e].a.isBoom
                       THEN /\ Get(log[i][n].b, K.statusCode) = log[i][e].a.output.statusCode
                            /\ Get(log[i][n].b, K.body) = JSONstringify(log[i][e].a.output.payload)
                       ELSE /\ Get(log[i][n].b, K.statusCode) = Num(500)
                            /\ Get(log[i][n].b, K.body) = Str(GenericErrorBody)

\* a structured 400 thrown by the logic and delivered with its own status code
C9_Witness ==
    \E i \in Invocations :
        /\ IsApi(i) /\ pc[i] = "done"
        /\ \E e \in Positions(i, "error"), n \in Positions(i, "callback") :
              /\ e < n
              /\ log[i][e].a = badRequest(Str(T.invalid))
              /\ Get(log[i][n].b, K.statusCode) = Num(400)

\* C10: with a hook configured, once a run in which something failed has ended, the hook
\* was invoked once, with the raw error and before the callback, and the callback got the
\* response it gets with no hook configured, whether the hook returned or threw.
C10_HookNeverAltersControlFlow ==
    \A i \in Invocations :
        IsApi(i) /\ HookConfigured(handler[i]) /\ Settled(i) /\ Entered(i, "error") =>
            \A e \in Positions(i, "error") :
                /\ Positions(i, "hook") = {e + 1}
                /\ log[i][e + 1].a = log[i][e].a
                /\ CallbackFollows(i, e + 1)
                /\ log[i][e + 2] =
                      CallbackEntry(errorHandlerApiResponse(
                          [handler[i].options EXCEPT !.errorPreHandler = "none"], log[i][e].a))

IsApiMethods(i) == Started(i) /\ handler[i].variant = "apiMethods"
\* the event carries no HTTP method: the field is absent, or the empty string
NoHttpMethod(ev) ==
    \/ ~\E n \in 1..Len(ev.e) : ev.e[n].k = K.httpMethod
    \/ Get(ev, K.httpMethod) = Str(<<>>)
IsClientErrorCode(code) == code.t = "number" /\ code.kind = "int" /\ code.n \in 400..499
\* text sub occurs in text s
Contains(s, sub) == \E k \in 0..(Len(s) - Len(sub)) : SubSeq(s, k + 1, k + Len(sub)) = sub

\* C11: with apiMethods, when the event the router gets carries no HTTP method (absent or
\* empty), no handler is invoked, the router throws a Bad-Request-class error and every
\* response delivered to the callback has a 400-class statusCode.
C11_NoMethodIsBadRequest ==
    \A i \in Invocations :
        IsApiMethods(i) =>
            \A n \in Positions(i, "logic") :
                NoHttpMethod(log[i][n].a) =>
                    /\ ~Entered(i, "method") /\ ~Entered(i, "inherited")
                    /\ log[i][n + 1].stage = "threw"
                    /\ log[i][n + 1].a.t = "error" /\ log[i][n + 1].a.isBoom
                    /\ IsClientErrorCode(log[i][n + 1].a.output.statusCode)
                    /\ \A c \in Positions(i, "callback") :
                          IsClientErrorCode(Get(log[i][c].b, K.statusCode))

\* C12: with apiMethods, for an event whose httpMethod is a non-empty string: if its
\* lower-cased verb is a key of the mapping, that handler and nothing else is invoked,
\* once, with the call the router got, and what it returns is shaped by the API data
\* handler; if not, nothing is invoked, the router throws a 400 error whose message names
\* the verb, and the response has statusCode 400 and a body naming the verb.
C12_RouterDispatch ==
    \A i \in Invocations :
        IsApiMethods(i) =>
            \A n \in Positions(i, "logic") :
                LET ev == log[i][n].a
                    method == Get(ev, K.httpMethod)
                IN method.t = "string" /\ method.s # <<>> =>
                    IF toLower(method.s) \in handler[i].mapping
                    THEN /\ Positions(i, "method") = {n + 1}
                         /\ log[i][n + 1] = Entry("method", ev, Str(toLower(method.s)))
                         /\ ~Entered(i, "inherited")
                         /\ \A d \in Positions(i, "data") :
                               /\ log[i][d - 1].stage \in {"returned", "resolved"}
                               /\ log[i][d].a = log[i][d - 1].a
                               /\ dataHandlerApiWithOptions(handler[i].options, log[i][d].a).ok =>
                                     log[i][d + 1] =
                                        CallbackEntry(dataHandlerApiWithOptions(handler[i].options, log[i][d].a))
                    ELSE /\ ~Entered(i, "method") /\ ~Entered(i, "inherited") /\ ~Entered(i, "data")
                         /\ log[i][n + 1].stage = "threw"
                         /\ log[i][n + 1].a.t = "error" /\ log[i][n + 1].a.isBoom
                         /\ log[i][n + 1].a.output.statusCode = Num(400)
                         /\ Contains(Get(log[i][n + 1].a.output.payload, K.message).s, method.s)
                         /\ \A c \in Positions(i, "callback") :
                               /\ Get(log[i][c].b, K.statusCode) = Num(400)
                               /\ Contains(Get(log[i][c].b, K.body).s, method.s)

HasField(o, key) == o.t = "object" /\ \E n \in 1..Len(o.e) : o.e[n].k = key
\* a structured HTTP error of the 400 class
IsBadRequestClass(e) == e.t = "error" /\ e.isBoom /\ IsClientErrorCode(e.output.statusCode)

\* C13: with postRaw and postFormUrlEncoded, an event that carries both body and body64
\* fails preprocessing with a 400-class validation error, whatever the body is, and the
\* user logic is never invoked.
C13_BothBodiesIsValidationError ==
    \A i \in Invocations :
        Started(i) /\ handler[i].variant \in {"postRaw", "postFormUrlEncoded"} =>
            \A n \in Positions(i, "preprocess") :
                HasField(log[i][n].a, K.body) /\ HasField(log[i][n].a, K.body64) =>
                    /\ pc[i] # "logic" /\ ~Entered(i, "logic")
                    /\ n + 1 <= Len(log[i]) =>
                          log[i][n + 1].stage = "error" /\ IsBadRequestClass(log[i][n + 1].a)

\* the fields of two events other than key are the same
SameExcept(ev1, ev2, key) ==
    /\ \A n \in 1..Len(ev1.e) : ev1.e[n].k # key => Get(ev2, ev1.e[n].k) = ev1.e[n].v
    /\ \A n \in 1..Len(ev2.e) : ev2.e[n].k # key => Get(ev1, ev2.e[n].k) = ev2.e[n].v

\* C14: with api and apiMethods, an event whose body is a non-empty text of valid JSON
\* reaches the user logic with the parsed value as its body and its other fields as they
\* were ({"code":42} as the mapping code: 42); if the text is not valid JSON the logic is
\* never invoked and the error handler gets the 500 error "Invalid body JSON"; an event
\* with no body or an empty body reaches the logic unchanged.
C14_JsonBodyDecode ==
    \A i \in Invocations :
        IsApi(i) =>
            \A n \in Positions(i, "preprocess") :
                LET ev == log[i][n].a
                    body == Get(ev, K.body)
                IN /\ ~HasField(ev, K.body) \/ body = Str(<<>>) =>
                         /\ pc[i] # "catch" \/ n + 1 <= Len(log[i])
                         /\ n + 1 <= Len(log[i]) => log[i][n + 1] = Entry("logic", ev, Undefined)
                   /\ body.t = "string" /\ body.s # <<>> /\ JSONparse(body).ok =>
                         /\ pc[i] # "catch" \/ n + 1 <= Len(log[i])
                         /\ n + 1 <= Len(log[i]) =>
                               /\ log[i][n + 1].stage = "logic"
                               /\ Get(log[i][n + 1].a, K.body) = JSONparse(body).v
                               /\ body.s = T.jsonBody =>
                                     Get(log[i][n + 1].a, K.body) = Obj(<<Prop(K.code, Num(42))>>)
                               /\ SameExcept(ev, log[i][n + 1].a, K.body)
                   /\ body.t = "string" /\ body.s # <<>> /\ ~JSONparse(body).ok =>
                         /\ pc[i] # "logic" /\ ~Entered(i, "logic")
                         /\ n + 1 <= Len(log[i]) =>
                               /\ log[i][n + 1] = Entry("error", badImplementation(Str(M.InvalidBodyJson)), Undefined)
                               /\ log[i][n + 1].a.output.statusCode = Num(500)
                               /\ \A c \in Positions(i, "callback") :
                                     Get(log[i][c].b, K.statusCode) = Num(500)

\* a run of api or apiMethods has ended whose event had the body {"code":42} and whose
\* logic was given the mapping code: 42 as the body
C14_Witness ==
    \E i \in Invocations :
        /\ IsApi(i) /\ pc[i] = "done"
        /\ Get(event[i], K.body) = Str(T.jsonBody)
        /\ \E n \in Positions(i, "logic") :
              Get(log[i][n].a, K.body) = Obj(<<Prop(K.code, Num(42))>>)

CountChar(s, c) == Cardinality({k \in 1..Len(s) : s[k] = c})
\* a % that two hexadecimal digits do not follow
StrayPercent(s) ==
    \E k \in 1..Len(s) : s[k] = "%" /\ ~(k + 2 <= Len(s) /\ IsHex(s[k + 1]) /\ IsHex(s[k + 2]))
MalformedPair(pair) == CountChar(pair, "=") # 1 \/ StrayPercent(pair)
HasMalformedPair(text) == \E k \in 1..Len(split(text, "&")) : MalformedPair(split(text, "&")[k])
FormTexts == MalformedForms \cup {FormEncode(fields) : fields \in FormMappings}

SameMapping(body, fields) ==
    /\ body.t = "object"
    /\ Len(body.e) = Len(fields)
    /\ {body.e[k] : k \in 1..Len(body.e)} = {fields[k] : k \in 1..Len(fields)}

\* C16: with postFormUrlEncoded, for every mapping of ASCII keys to ASCII values, the
\* empty one included, the event whose body64 is the base64 text of the form-encoded
\* mapping passes preprocessing and reaches the user logic with a body equal to the mapping.
C16_FormDecodeLeftInverse ==
    \A i \in Invocations :
        Started(i) /\ handler[i].variant = "postFormUrlEncoded" =>
            \A n \in Positions(i, "preprocess"), fields \in FormMappings :
                log[i][n].a = EncodedEvent(FormEncode(fields)) =>
                    /\ pc[i] = "logic" \/ n + 1 <= Len(log[i])
                    /\ n + 1 <= Len(log[i]) =>
                          /\ log[i][n + 1].stage = "logic"
                          /\ SameMapping(Get(log[i][n + 1].a, K.body), fields)

(***************************************************************************)
(* Properties of the invocation client                                     *)
(***************************************************************************)
\* the transport has answered and invokeRequestResponse has ended
Answered ==
    /\ cpc \in {"returned", "threw"} /\ response # Undefined
    /\ Get(params, K.InvocationType) = Str(M.RequestResponse)
StartsWith(s, prefix) == Len(prefix) <= Len(s) /\ SubSeq(s, 1, Len(prefix)) = prefix
\* the status is the success status, the discriminator is f
SuccessWith(f) ==
    /\ Answered
    /\ Get(response, K.StatusCode) = Num(200)
    /\ Get(response, K.FunctionError) = f
\* the call threw the Error of the client for a payload that is not JSON
ThrewParseFailure ==
    /\ cpc = "threw"
    /\ outcome.error.t = "error"
    /\ StartsWith(outcome.error.message.s,
                  M.FailedToParsePayload \o ToString_(Get(response, K.Payload)) \o <<"'">>)
    /\ outcome.error # SyntaxError

\* C17 as stated: with the success status and the discriminator Handled, the call always
\* throws the JSON parse of the errorMessage of the payload, or the errorMessage itself
\* when that is not JSON.
C17_HandledAlwaysErrorMessage ==
    SuccessWith(Str(M.Handled)) =>
        /\ cpc = "threw"
        /\ JSONparse(Get(response, K.Payload)).ok
        /\ LET errorMessage == Get(JSONparse(Get(response, K.Payload)).v, K.errorMessage)
           IN outcome.error = IF JSONparse(errorMessage).ok THEN JSONparse(errorMessage).v
                              ELSE errorMessage

\* C17 amended: with the success status and the discriminator Handled the call never
\* returns normally; when the payload is JSON for a mapping whose errorMessage is a text,
\* it throws the JSON parse of that text if it is JSON ({"code":42} as the mapping
\* code: 42) and the text itself if not; when the payload is not JSON it throws the
\* Error of the client for a payload that cannot be parsed.
C17_HandledErrorMessage ==
    SuccessWith(Str(M.Handled)) =>
        /\ cpc = "threw"
        /\ ~JSONparse(Get(response, K.Payload)).ok => ThrewParseFailure
        /\ JSONparse(Get(response, K.Payload)).ok =>
              LET errorMessage == Get(JSONparse(Get(response, K.Payload)).v, K.errorMessage)
              IN errorMessage.t = "string" =>
                    /\ outcome.error = IF JSONparse(errorMessage).ok THEN JSONparse(errorMessage).v
                                       ELSE errorMessage
                    /\ Get(response, K.Payload) = Str(T.handledJson) =>
                          outcome.error = Obj(<<Prop(K.code, Num(42))>>)
                    /\ Get(response, K.Payload) = Str(T.handledText) =>
                          outcome.error = Str(<<"F", "a", "i", "l", "e", "d", " ", "t", "o", " ", "a", "d", "d", " ", "n", "u", "m", "b", "e", "r", "s">>)

C17_Witness ==
    /\ SuccessWith(Str(M.Handled))
    /\ Get(response, K.Payload) = Str(T.handledJson)
    /\ cpc = "threw"
    /\ outcome.error = Obj(<<Prop(K.code, Num(42))>>)

\* C18 as stated: with the success status and the discriminator Unhandled, the call
\* always throws the parsed payload as it is.
C18_UnhandledAlwaysPayload ==
    SuccessWith(Str(M.Unhandled)) =>
        /\ cpc = "threw"
        /\ JSONparse(Get(response, K.Payload)).ok
        /\ outcome.error = JSONparse(Get(response, K.Payload)).v

\* the payload of an uncaught exception, as the Lambda service writes it
UnhandledPayload ==
    Obj(<<Prop(K.errorMessage, Str(<<"U", "n", "e", "x", "p", "e", "c", "t", "e", "d", " ", "t", "o", "k", "e", "n", " ", "{">>)),
          Prop(K.errorType, Str(<<"S", "y", "n", "t", "a", "x", "E", "r", "r", "o", "r">>)),
          Prop(K.stackTrace, Arr(<<Str(<<"M", "o", "d", "u", "l", "e", ".", "l", "o", "a", "d", " ", "(", "m", "o", "d", "u", "l", "e", ".", "j", "s", ":", "3", "4", "3", ":", "3", "2", ")">>)>>))>>)

\* C18 amended: with the success status and the discriminator Unhandled the call never
\* returns normally; when the payload is JSON it throws the parsed payload as it is, not
\* wrapped and its errorMessage not parsed; when the payload is not JSON it throws the
\* Error of the client for a payload that cannot be parsed.
C18_UnhandledPayload ==
    SuccessWith(Str(M.Unhandled)) =>
        /\ cpc = "threw"
        /\ ~JSONparse(Get(response, K.Payload)).ok => ThrewParseFailure
        /\ JSONparse(Get(response, K.Payload)).ok =>
              /\ outcome.error = JSONparse(Get(response, K.Payload)).v
              /\ Get(response, K.Payload) = Str(T.unhandled) => outcome.error = UnhandledPayload
              /\ Get(response, K.Payload) = Str(T.handledJson) =>
                    outcome.error = Obj(<<Prop(K.errorMessage, Str(<<"{", "\"", "c", "o", "d", "e", "\"", ":", "4", "2", "}">>))>>)

C18_Witness ==
    /\ SuccessWith(Str(M.Unhandled))
    /\ Get(response, K.Payload) = Str(T.unhandled)
    /\ cpc = "threw"
    /\ outcome.error = UnhandledPayload

\* C19: whenever the status of the response is anything but the number 200, the call
\* throws an Error whose message names the function and holds the whole response, whatever
\* the payload and the discriminator are; it does not return, and what it throws is
\* neither the payload nor made from it.
C19_ServiceFailure ==
    Answered /\ Get(response, K.StatusCode) # Num(200) =>
        LET lambdaFunction == Get(params, K.FunctionName).s
            prefix == M.FailedToInvoke \o lambdaFunction \o <<":", "\n">>
            message == outcome.error.message.s
        IN /\ cpc = "threw"
           /\ outcome.error.t = "error" /\ ~outcome.error.isBoom
           /\ StartsWith(message, prefix)
           /\ JSONparse(Str(SubSeq(message, Len(prefix) + 1, Len(message)))) = [ok |-> TRUE, v |-> response]
           /\ Contains(message, lambdaFunction)

C19_Witness ==
    /\ Answered
    /\ Get(response, K.StatusCode) = Num(202)
    /\ Get(response, K.FunctionError) = Str(M.Handled)
    /\ Get(response, K.Payload) = Str(T.handledJson)
    /\ cpc = "threw"
    /\ StartsWith(outcome.error.message.s, M.FailedToInvoke \o Get(params, K.FunctionName).s)

\* C20: with the success status and no discriminator, the call returns the JSON parse of
\* the payload when the payload is JSON ({"data":{"hello":"foobar","code":3}} as that
\* mapping), and throws the Error of the client for a payload that cannot be parsed, not
\* the SyntaxError of the parser, when it is not.
C20_SuccessPayload ==
    SuccessWith(Undefined) =>
        IF JSONparse(Get(response, K.Payload)).ok
        THEN /\ cpc = "returned"
             /\ outcome.v = JSONparse(Get(response, K.Payload)).v
             /\ Get(response, K.Payload) = Str(T.data) =>
                   outcome.v = Obj(<<Prop(K.data, Obj(<<Prop(K.hello, Str(T.foobar)), Prop(K.code, Num(3))>>))>>)
        ELSE ThrewParseFailure

C20_Witness ==
    /\ SuccessWith(Undefined)
    /\ Get(response, K.Payload) = Str(T.data)
    /\ cpc = "returned"
    /\ outcome.v = Obj(<<Prop(K.data, Obj(<<Prop(K.hello, Str(T.foobar)), Prop(K.code, Num(3))>>))>>)

\* invokeEvent has ended after the transport answered
Dispatched ==
    /\ cpc \in {"returned", "threw"} /\ response # Undefined
    /\ Get(params, K.InvocationType) = Str(M.Event)

\* C21: a fire-and-forget call returns true exactly when the status of the response is
\* the number 202; with any other status it throws the Error "Failed to invoke Lambda
\* function ..." that names the function and holds the response; whether it returns or
\* throws, and the value it returns, depend on neither the payload nor the discriminator.
C21_FireAndForget ==
    Dispatched =>
        LET lambdaFunction == Get(params, K.FunctionName).s
            accepted == Get(response, K.StatusCode) = Num(202)
        IN /\ cpc = "returned" <=> accepted
           /\ accepted => outcome = Return(Bool(TRUE))
           /\ ~accepted =>
                 /\ outcome.error.t = "error" /\ ~outcome.error.isBoom
                 /\ StartsWith(outcome.error.message.s,
                               M.FailedToInvoke \o lambdaFunction \o <<":", "\n">>)
           /\ \A r \in Responses :
                 Get(r, K.StatusCode) = Get(response, K.StatusCode) =>
                     /\ invokeEvent(lambdaFunction, r).ok = outcome.ok
                     /\ outcome.ok => invokeEvent(lambdaFunction, r) = outcome

C21_Witness ==
    /\ Dispatched
    /\ Get(response, K.StatusCode) = Num(202)
    /\ Get(response, K.FunctionError) = Str(M.Unhandled)
    /\ Get(response, K.Payload) = Str(T.unhandled)
    /\ outcome = Return(Bool(TRUE))

\* the discriminator is a non-empty text other than Handled and Unhandled
Unrecognized(f) == f.t = "string" /\ f.s # <<>> /\ f.s # M.Handled /\ f.s # M.Unhandled

\* C23 as stated: with the status 200 and a discriminator that is not empty and is
\* neither Handled nor Unhandled, the call always throws the Error that names the
\* discriminator.
C23_UnrecognizedAlwaysNamed ==
    Answered /\ Get(response, K.StatusCode) = Num(200)
             /\ Unrecognized(Get(response, K.FunctionError)) =>
        /\ cpc = "threw"
        /\ outcome.error = Err(Str(M.UnrecognizedPrefix \o Get(response, K.FunctionError).s \o <<"'">>))

\* C23 amended: with the status 200 and a discriminator that is not empty and is
\* neither Handled nor Unhandled, the call never returns and never throws the payload or
\* its errorMessage; when the payload is JSON it throws the Error "Unrecognized Lambda
\* response FunctionError value '...'" that names the discriminator; when the payload is
\* not JSON it throws the Error of the client for a payload that cannot be parsed.
C23_UnrecognizedDiscriminator ==
    Answered /\ Get(response, K.StatusCode) = Num(200)
             /\ Unrecognized(Get(response, K.FunctionError)) =>
        LET parsed == JSONparse(Get(response, K.Payload))
        IN /\ cpc = "threw"
           /\ outcome.error.t = "error"
           /\ ~parsed.ok => ThrewParseFailure
           /\ parsed.ok =>
                 /\ outcome.error =
                       Err(Str(M.UnrecognizedPrefix \o Get(response, K.FunctionError).s \o <<"'">>))
                 /\ Contains(outcome.error.message.s, Get(response, K.FunctionError).s)
                 /\ outcome.error # parsed.v
                 /\ outcome # HandledError(parsed.v)

C23_Witness ==
    /\ Answered /\ Get(response, K.StatusCode) = Num(200)
    /\ Get(response, K.FunctionError) = Str(T.other)
    /\ Get(response, K.Payload) = Str(T.handledJson)
    /\ cpc = "threw"
    /\ outcome.error = Err(Str(M.UnrecognizedPrefix \o T.other \o <<"'">>))

(***************************************************************************)
(* Properties of the warmer                                                *)
(***************************************************************************)
WarmerStarted == wpc # "idle"
WarmerEnded == wpc \in {"done", "threw", "rejected"}
\* the request of a fire-and-forget call that carries warmupOnly: true to the function
IsWarmupCall(request, lambdaFunction) ==
    /\ request = Obj(<<Prop(K.FunctionName, Str(lambdaFunction)),
                       Prop(K.Payload, Str(<<"{", "\"", "w", "a", "r", "m", "u", "p", "O", "n", "l", "y", "\"", ":", "t", "r", "u", "e", "}">>)),
                       Prop(K.InvocationType, Str(M.Event))>>)
    /\ IsWarmup(JSONparse(Get(request, K.Payload)).v)
\* one call was issued to each target of the list, in the order of the list, and no other
OneCallPerTarget ==
    /\ Len(wcalls) = Len(warmer.lambdasToWarm)
    /\ \A k \in 1..Len(warmer.lambdasToWarm) :
          /\ IsWarmupCall(wcalls[k].params, warmer.lambdasToWarm[k])
          /\ Cardinality({n \in 1..Len(wlog) : wlog[n].stage = "invoke" /\ wlog[n].a = k}) = 1
          /\ \E n \in 1..Len(wlog) : wlog[n] = Entry("invoke", k, wcalls[k].params)
\* every call had settled before position n of what happened
AllSettledBefore(n) ==
    \A k \in 1..Len(warmer.lambdasToWarm) :
        \E m \in 1..(n - 1) : wlog[m].stage = "settle" /\ wlog[m].a = k
\* the callback invocations of the warmer's run
WarmerCallbacks == {n \in 1..Len(wlog) : wlog[n].stage = "callback"}
\* no dispatch failed the operation: the first callback invocation has a null error, and
\* an error reaches the callback only when that invocation itself threw
NeverFailed ==
    /\ \A n \in WarmerCallbacks :
          wlog[n].a # Null => wlog[n].a = CallbackError /\ \E m \in WarmerCallbacks : m < n
    /\ WarmerEnded => \E n \in WarmerCallbacks : wlog[n].a = Null

\* C22 as stated: whatever event the warmer is invoked with, one fire-and-forget call
\* that carries warmupOnly: true is issued to each target of the list.
C22_WarmerAlwaysDispatches ==
    WarmerStarted => OneCallPerTarget

\* C22 amended: when the warmer is invoked with an event that is not itself a warm-up
\* marker, for every list of targets and every combination of accepted, refused and
\* failed dispatches, one fire-and-forget call that carries warmupOnly: true is issued
\* to each target, every call is issued whatever happens to the others, no failure
\* reaches the callback, and the callback is invoked with a null error only after
\* every call has settled. When the event is a warm-up marker no call is issued and the
\* callback is invoked with null and null.
C22_Warmer ==
    WarmerStarted =>
        IF IsWarmup(warmer.event)
        THEN /\ wcalls = <<>>
             /\ wlog = <<Entry("callback", Null, Null)>>
        ELSE /\ OneCallPerTarget
             /\ NeverFailed
             /\ \A n \in WarmerCallbacks : AllSettledBefore(n)
             /\ \A k \in 1..Len(wcalls) :
                   wcalls[k].dispatched # Undefined => wcalls[k].result = Return(Undefined)

\* the warmer of two targets has ended with a null error after the second dispatch was
\* refused by the transport and then the first failed in the service
C22_Witness ==
    /\ wpc = "done"
    /\ warmer.lambdasToWarm = <<T.adder, T.myFunction>>
    /\ ~IsWarmup(warmer.event)
    /\ Len(wlog) = 6
    /\ wlog[3] = Entry("settle", 2, Throw(TransportError))
    /\ wlog[4].stage = "settle" /\ wlog[4].a = 1 /\ ~wlog[4].b.ok
    /\ wlog[6] = Entry("callback", Null, Undefined)

(***************************************************************************)
(* Order of the stages of a run                                            *)
(***************************************************************************)
\* the preprocessor or the user logic of the run has not settled yet
Pending(i) == pc[i] \in {"preprocess", "logic", "await"}

\* C24: in a run the stages come in the order preprocess, user logic, then data handler
\* or error handler, then callback: the logic is entered only just after the
\* preprocessor returned, with what it returned; the data handler is entered only just
\* after the logic returned or its promise resolved, with that value; an error handler
\* is entered only after a stage before it threw; and the callback is never invoked
\* while the preprocessor or the logic is pending.
C24_StagesInOrder ==
    \A i \in Invocations :
        /\ Cardinality(Positions(i, "preprocess")) <= 1
        /\ Cardinality(Positions(i, "logic")) <= 1
        /\ Positions(i, "preprocess") \subseteq {1}
        /\ \A l \in Positions(i, "logic") :
              /\ l = 2 /\ log[i][1].stage = "preprocess"
              /\ Preprocessor(handler[i].variant, log[i][1].a).ok
              /\ log[i][l].a = Preprocessor(handler[i].variant, log[i][1].a).v
        /\ \A d \in Positions(i, "data") :
              /\ d > 2 /\ log[i][d - 1].stage \in {"returned", "resolved"}
              /\ log[i][d].a = log[i][d - 1].a
              /\ \E l \in Positions(i, "logic") : l < d
        /\ \A e \in Positions(i, "error") :
              /\ e > 1
              /\ \/ log[i][e - 1].stage = "preprocess"
                       /\ ~Preprocessor(handler[i].variant, log[i][e - 1].a).ok
                 \/ log[i][e - 1].stage \in {"threw", "rejected"}
                 \/ \E d \in Positions(i, "data") : d < e
        /\ Pending(i) => Positions(i, "callback") = {}
        /\ \A c \in Positions(i, "callback") :
              \/ log[i] = <<Entry("callback", Null, Null)>>
              \/ c > 1 /\ log[i][c - 1].stage \in {"data", "error", "hook"}
                       /\ \E p \in Positions(i, "preprocess") : p < c

\* a run of api has ended whose logic returned a promise: preprocess, logic, the promise
\* resolved, data handler, callback
C24_Witness ==
    \E i \in Invocations :
        /\ handler[i].variant = "api" /\ pc[i] = "done"
        /\ Get(event[i], K.body) = Str(T.jsonBody)
        /\ Len(log[i]) = 5
        /\ log[i][1].stage = "preprocess" /\ log[i][2].stage = "logic"
        /\ log[i][3].stage = "resolved" /\ log[i][4].stage = "data"
        /\ log[i][5].stage = "callback"

(***************************************************************************)
(* The event of the host                                                   *)
(***************************************************************************)
Decoders == {"api", "apiMethods", "postRaw", "postFormUrlEncoded"}

Configured(first, second) ==
    IF first # Undefined THEN first ELSE IF second # Undefined THEN second ELSE Obj(<<>>)

\* C27: with api and apiMethods, the response the data handler gives the callback carries
\* the headers of the returned value when that value is a mapping with a statusCode and a
\* headers field of its own, and otherwise options.dataHeaders if configured, else
\* options.headers, else the empty mapping; the response the error handler gives the
\* callback carries options.errorHeaders if configured, else options.headers, else the
\* empty mapping, whatever dataHeaders is and whatever headers the returned value had.
C27_ResponseHeaders ==
    \A i \in Invocations :
        IsApi(i) =>
            \A c \in Positions(i, "callback") :
                c > 1 =>
                    LET options == handler[i].options
                        data == log[i][c - 1].a
                        headers == Get(log[i][c].b, K.headers)
                    IN /\ log[i][c - 1].stage = "data" =>
                             headers = IF HasStatusCode(data) /\ Get(data, K.headers) # Undefined
                                       THEN Get(data, K.headers)
                                       ELSE Configured(options.dataHeaders, options.headers)
                       /\ log[i][c - 1].stage \in {"error", "hook"} =>
                             headers = Configured(options.errorHeaders, options.headers)

\* a run of api with headers, dataHeaders and errorHeaders all configured and different
\* has ended with a success response that carries dataHeaders
C27_Witness ==
    \E i \in Invocations :
        /\ handler[i].variant = "api" /\ pc[i] = "done"
        /\ handler[i].options.headers = CorsHeaders
        /\ handler[i].options.dataHeaders = Obj(<<Prop(T.origin, Str(T.foobar))>>)
        /\ handler[i].options.errorHeaders # Undefined
        /\ \E c \in Positions(i, "callback") :
              /\ c > 1 /\ log[i][c - 1].stage = "data"
              /\ ~HasStatusCode(log[i][c - 1].a)
              /\ Get(log[i][c].b, K.headers) = Obj(<<Prop(T.origin, Str(T.foobar))>>)

(***************************************************************************)
(* Interleaved invocations of one handler                                  *)
(***************************************************************************)
\* what run i gave its logic and its callback was computed from its own event and from
\* what its own logic did
OwnOutcome(i) ==
    /\ \A p \in Positions(i, "preprocess") : log[i][p].a = event[i]
    /\ \A l \in Positions(i, "logic") :
          log[i][l].a = Preprocessor(handler[i].variant, event[i]).v
    /\ \A c \in Positions(i, "callback") :
          /\ c > 1
          /\ log[i][c - 1].stage = "data" =>
                /\ log[i][c] = CallbackEntry(DataHandler(handler[i], log[i][c - 1].a))
                /\ log[i][c - 2].stage \in {"returned", "resolved"}
                /\ log[i][c - 1].a = log[i][c - 2].a
          /\ log[i][c - 1].stage = "error" =>
                /\ log[i][c] = CallbackEntry(ErrorHandler(handler[i], log[i][c - 1].a))
                /\ \/ log[i][c - 2].stage \in {"threw", "rejected"}
                         /\ log[i][c - 1].a = log[i][c - 2].a
                   \/ log[i][c - 2].stage = "preprocess"
                         /\ log[i][c - 1].a = Preprocessor(handler[i].variant, event[i]).error
                   \/ log[i][c - 2].stage \in {"data", "callback"}

\* C25: when invocations of one handler are interleaved at the thens of their chains,
\* in any order, the callback of each invocation is invoked exactly once, and the logic
\* and the callback of each are given what was computed from its own event and its own
\* logic.
C25_InterleavedExactlyOnce ==
    \A i \in Invocations :
        /\ Len(Calls(i)) <= 1
        /\ Settled(i) => Len(Calls(i)) = 1
        /\ OwnOutcome(i)
====
